---- MODULE Spec2Model ----
(***************************************************************************)
(* NEXIS voice assistant: the persistent store (memory/storage.py), the    *)
(* reminder scheduler thread (ReminderThread), the intent router           *)
(* (brain/processor.py) and the session loop (main.py).                    *)
(*                                                                         *)
(* Text is modelled as a sequence of word tokens separated by single       *)
(* blanks; the token " " stands for surplus whitespace.  The regular       *)
(* expressions of processor.py are matched token by token: a \b-delimited  *)
(* alternative is a phrase of consecutive tokens.                          *)
(* Time is an integer number of seconds; ISO-8601 strings of fixed width   *)
(* compare as the instants they denote.  datetime.now() carries            *)
(* microseconds, but every remind_at has microsecond 0, so the comparison  *)
(* remind_at <= now depends on whole seconds only.                         *)
(***************************************************************************)
EXTENDS Integers, Sequences, FiniteSets, TLC

VARIABLES
    notes,        \* table memories: sequence of [id, content, saved_at]
    noteSeq,      \* AUTOINCREMENT counter of table memories
    reminders,    \* table reminders: sequence of [id, task, remind_at, notified]
    storeLock,    \* MemoryStore._lock: "free" or the holder
    conn,         \* per caller: the MemoryStore operation it is inside, if any
    now,          \* wall clock, seconds
    horizon,      \* the last instant the run is followed to
    pc,           \* ReminderThread.run position, per thread
    due,          \* ReminderThread.run: the list `due`, per thread
    idx,          \* ReminderThread.run: position of `r` in `due`, per thread
    k,            \* ReminderThread.run: iterations done of `for _ in range(30)`
    deadline,     \* ReminderThread.run: instant at which wait(timeout=1) expires
    stop_event,   \* ReminderThread._stop_event, per thread
    calls,        \* history: calls[s][id] = callback invocations by thread s for reminder id
    stopAt,       \* history: instant of stop(), -1 before
    speakerLock,  \* Speaker._lock: "free" or the holder
    mpc,          \* main.run position
    response,     \* main.run: result of brain.process (record), or the listener's text
    last          \* harness: the last API call and what it returned

lockVars  == <<storeLock, conn>>
storeVars == <<notes, noteSeq, reminders, lockVars>>
clockVars == <<now, horizon>>
schedVars == <<pc, due, idx, k, deadline, stop_event, calls, stopAt>>
mainVars  == <<mpc, response>>
vars == <<notes, noteSeq, reminders, storeLock, conn, now, horizon, pc, due, idx, k, deadline,
          stop_event, calls, stopAt, speakerLock, mpc, response, last>>

----------------------------------------------------------------------------
\* Bounds of the model
MaxReminders == 2      \* rows the reminders table may hold
MaxNotes     == 3      \* rows ever inserted into the memories table
MaxTicks     == 32     \* clock ticks after the start instant
MaxClock     == 3      \* last instant of the store harness

\* Program constants
PollTicks == 30        \* for _ in range(30)
WaitTimeout == 1       \* self._stop_event.wait(timeout=1)

Day == 24 * 3600

----------------------------------------------------------------------------
\* Tokens and texts

Lower(tok) ==
    CASE tok = "Bye"    -> "bye"
      [] tok = "Remind" -> "remind"
      [] tok = "PM"     -> "pm"
      [] tok = "NEXIS"  -> "nexis"
      [] OTHER          -> tok

lower(t) == [i \in 1..Len(t) |-> Lower(t[i])]

RECURSIVE lstrip(_)
lstrip(t) == IF t # <<>> /\ Head(t) = " " THEN lstrip(Tail(t)) ELSE t

RECURSIVE rstrip(_)
rstrip(t) == IF t # <<>> /\ t[Len(t)] = " " THEN rstrip(SubSeq(t, 1, Len(t) - 1)) ELSE t

strip(t) == rstrip(lstrip(t))

\* re: the phrase ph occurs in t at token i
PhraseAt(t, ph, i) ==
    /\ i >= 1
    /\ i + Len(ph) - 1 <= Len(t)
    /\ \A j \in 1..Len(ph) : t[i + j - 1] = ph[j]

\* re.search of \b(p1|p2|...)\b
Search(P, t) == \E ph \in P : \E i \in 1..Len(t) : PhraseAt(t, ph, i)

\* number of characters of a token
TokLen(tok) ==
    CASE tok \in {"vs", "at", "to", "me", "am", "pm", "25", "12", "14"} -> 2
      [] tok \in {"cmd", "vlc", "bye", "mom"} -> 3
      [] tok \in {"code", "word", "task", "file", "call", "quit"} -> 4
      [] tok \in {"paint", "excel", "music", "later"} -> 5
      [] tok \in {"chrome", "google", "vscode", "visual", "studio",
                  "prompt", "videos"} -> 6
      [] tok \in {"firefox", "notepad", "manager", "command", "spotify",
                  "desktop"} -> 7
      [] tok \in {"explorer", "settings", "pictures"} -> 8
      [] tok \in {"downloads", "documents"} -> 9
      [] tok \in {"calculator", "powershell"} -> 10
      [] OTHER -> 1

RECURSIVE CharLen(_)
\* len() of the string a phrase stands for
CharLen(ph) ==
    IF ph = <<>> THEN 0
    ELSE IF Len(ph) = 1 THEN TokLen(ph[1])
    ELSE TokLen(Head(ph)) + 1 + CharLen(Tail(ph))

----------------------------------------------------------------------------
\* config.py

APP_COMMANDS ==
    << <<"chrome">>, <<"google", "chrome">>, <<"firefox">>, <<"notepad">>,
       <<"calculator">>, <<"vs", "code">>, <<"vscode">>,
       <<"visual", "studio", "code">>, <<"file", "explorer">>,
       <<"task", "manager">>, <<"settings">>, <<"paint">>, <<"cmd">>,
       <<"command", "prompt">>, <<"powershell">>, <<"spotify">>, <<"word">>,
       <<"excel">>, <<"vlc">> >>

FOLDER_COMMANDS ==
    << <<"downloads">>, <<"documents">>, <<"desktop">>, <<"pictures">>,
       <<"music">>, <<"videos">> >>

PROCESS_NAMES ==
    << <<"chrome">>, <<"google", "chrome">>, <<"firefox">>, <<"notepad">>,
       <<"calculator">>, <<"vs", "code">>, <<"vscode">>, <<"spotify">>,
       <<"vlc">>, <<"word">>, <<"excel">> >>

WAKE_WORD == <<>>      \* None

----------------------------------------------------------------------------
\* processor.py: the patterns of _RE

GREETING_PATTERNS ==
    { <<"hi">>, <<"hello">>, <<"hey">>, <<"yo">>, <<"what's", "up">>, <<"sup">>,
      <<"howdy">>, <<"hiya">>,
      <<"good", "morning">>, <<"good", "afternoon">>, <<"good", "evening">>,
      <<"good", "night">> }

FAREWELL_PATTERNS ==
    { <<"bye">>, <<"goodbye">>, <<"exit">>, <<"quit">>, <<"see", "you">>,
      <<"later">>, <<"cya">>, <<"peace", "out">>, <<"shut", "down">> }

HOW_ARE_YOU_PATTERNS ==
    { <<"how", "are", "you">>, <<"how're", "you">>, <<"how", "do", "you", "feel">>,
      <<"are", "you", "okay">>, <<"you", "good">> }

RE_time == { <<"what", "time">>, <<"current", "time">>, <<"what's", "the", "time">>,
             <<"tell", "me", "the", "time">> }
RE_date == { <<"what's", "today">>, <<"what's", "the", "date">>,
             <<"what", "is", "today">>, <<"what", "is", "the", "date">>,
             <<"today's", "date">>, <<"current", "date">> }
RE_day  == { <<"what", "day">>, <<"which", "day">> }
RE_joke == { <<"joke">>, <<"make", "me", "laugh">>, <<"something", "funny">>,
             <<"tell", "me", "a", "joke">> }
RE_lock == { <<"lock", "screen">>, <<"lock", "the", "screen">>, <<"lock", "pc">>,
             <<"lock", "computer">> }
RE_shutdown == { <<"shutdown">>, <<"shut", "down">>, <<"power", "off">>,
                 <<"turn", "off", "pc">>, <<"turn", "off", "the", "pc">> }
RE_restart == { <<"restart">>, <<"reboot">> }
\* the optional tail .*(pc|computer|system)?\b matches after any of the heads
RE_sleep_pc == { <<"sleep">>, <<"hibernate">>, <<"put", "to", "sleep">> }
RE_screenshot == { <<"screenshot">>, <<"screen", "capture">>, <<"capture", "screen">> }
RE_volume_up == { <<"volume", "up">>, <<"louder">>, <<"increase", "volume">> }
RE_volume_down == { <<"volume", "down">>, <<"quieter">>, <<"lower", "volume">>,
                    <<"decrease", "volume">> }
RE_mute == { <<"mute">>, <<"silence">> }
RE_open_app == { <<"open">>, <<"launch">>, <<"start">>, <<"run">> }
RE_close_app == { <<"close">>, <<"kill">>, <<"stop">>, <<"quit">>, <<"exit">> }
RE_open_folder_head == { <<"open">>, <<"show">>, <<"go", "to">> }
RE_open_folder_tail == { "folder", "directory", "downloads", "documents", "desktop",
                         "pictures", "music", "videos" }
RE_list_reminders == { <<"list", "reminders">>, <<"show", "reminders">>,
                       <<"my", "reminders">>, <<"pending", "reminders">> }
RE_recall == { <<"what", "do", "you", "remember">>, <<"recall">>,
               <<"show", "memories">>, <<"my", "notes">> }
RE_clear_memory == { <<"clear", "memory">>, <<"forget", "everything">>,
                     <<"delete", "memories">> }
RE_weather == { <<"weather">>, <<"temperature">>, <<"forecast">>, <<"rain">>, <<"sunny">> }
RE_what_is == { <<"what", "is">>, <<"what", "are">>, <<"who", "is">>, <<"who", "was">>,
                <<"tell", "me", "about">>, <<"explain">>, <<"define">>, <<"describe">> }
RE_search == { <<"search", "for">>, <<"look", "up">>, <<"find">>, <<"google">>,
               <<"search">> }
RE_news == { <<"news">>, <<"latest">>, <<"today's", "news">>, <<"headlines">> }
\* \b(open|show|go to)\b.*(folder|...|videos)\b
Match_open_folder(t) ==
    \E ph \in RE_open_folder_head : \E i \in 1..Len(t) :
        /\ PhraseAt(t, ph, i)
        /\ \E j \in (i + Len(ph))..Len(t) : t[j] \in RE_open_folder_tail

\* index of the first token that is not surplus whitespace at or after i, 0 if none
RECURSIVE SkipSpace(_, _)
SkipSpace(t, i) ==
    IF i > Len(t) THEN 0
    ELSE IF t[i] = " " THEN SkipSpace(t, i + 1) ELSE i

\* \bremind\s+me\b
Match_remind(t) ==
    \E i \in 1..Len(t) : t[i] = "remind" /\ SkipSpace(t, i + 1) # 0
                          /\ t[SkipSpace(t, i + 1)] = "me"

\* \bremember\s+(that\s+)?(.*) : "remember" followed by whitespace
Match_remember(t) == \E i \in 1..(Len(t) - 1) : t[i] = "remember"

----------------------------------------------------------------------------
\* storage.py: MemoryStore.  Each operation runs under self._lock and is one
\* SQL statement, so it is one step of the model.

\* INSERT INTO memories (content, saved_at)
save_memory(ns, seq, content, at) ==
    [notes   |-> Append(ns, [id |-> seq + 1, content |-> strip(content), saved_at |-> at]),
     noteSeq |-> seq + 1]

get_all_memories_asc(ns) ==
    [i \in 1..Len(ns) |-> [content |-> ns[i].content, saved_at |-> ns[i].saved_at]]

\* SELECT content, saved_at FROM memories ORDER BY id DESC
get_all_memories(ns) ==
    [i \in 1..Len(ns) |-> [content  |-> ns[Len(ns) + 1 - i].content,
                           saved_at |-> ns[Len(ns) + 1 - i].saved_at]]

clear_memories_uncommitted(ns) == ns

\* DELETE FROM memories
clear_memories(ns) == <<>>

add_reminder_notified(rs, task, remind_at) ==
    Append(rs, [id |-> Len(rs) + 1, task |-> strip(task), remind_at |-> remind_at,
                notified |-> TRUE])

\* INSERT INTO reminders (task, remind_at); notified DEFAULT 0
add_reminder(rs, task, remind_at) ==
    Append(rs, [id |-> Len(rs) + 1, task |-> strip(task), remind_at |-> remind_at,
                notified |-> FALSE])

Row(r) == [id |-> r.id, task |-> r.task, remind_at |-> r.remind_at]

DueCondition_any(r, at) == r.remind_at <= at

DueCondition_eq(r, at) == ~r.notified /\ r.remind_at = at

\* WHERE notified=0 AND remind_at <= ?
DueCondition(r, at) == ~r.notified /\ r.remind_at <= at

RECURSIVE SelectDue(_, _)
\* rows satisfying the WHERE clause, in rowid order
SelectDue(rs, at) ==
    IF rs = <<>> THEN <<>>
    ELSE IF DueCondition(Head(rs), at) THEN <<Head(rs)>> \o SelectDue(Tail(rs), at)
    ELSE SelectDue(Tail(rs), at)

\* SELECT id, task, remind_at FROM reminders WHERE notified=0 AND remind_at <= ?
get_due_reminders(rs, at) ==
    LET sel == SelectDue(rs, at)
    IN  [i \in 1..Len(sel) |-> Row(sel[i])]

RECURSIVE SelectPending(_)
\* WHERE notified=0
SelectPending(rs) ==
    IF rs = <<>> THEN <<>>
    ELSE IF ~Head(rs).notified THEN <<Head(rs)>> \o SelectPending(Tail(rs))
    ELSE SelectPending(Tail(rs))

RECURSIVE InsertSorted(_, _)
InsertSorted(sorted, r) ==
    IF sorted = <<>> THEN <<r>>
    ELSE IF r.remind_at < Head(sorted).remind_at THEN <<r>> \o sorted
    ELSE <<Head(sorted)>> \o InsertSorted(Tail(sorted), r)

RECURSIVE OrderByRemindAt(_)
OrderByRemindAt(rs) ==
    IF rs = <<>> THEN <<>>
    ELSE InsertSorted(OrderByRemindAt(SubSeq(rs, 1, Len(rs) - 1)), rs[Len(rs)])

\* SELECT id, task, remind_at FROM reminders WHERE notified=0 ORDER BY remind_at
get_pending_reminders(rs) ==
    LET sel == OrderByRemindAt(SelectPending(rs))
    IN  [i \in 1..Len(sel) |-> Row(sel[i])]

NotifiedAfterMark_toggle(r, reminder_id) ==
    IF r.id = reminder_id THEN ~r.notified ELSE r.notified

NotifiedAfterMark(r, reminder_id) == IF r.id = reminder_id THEN TRUE ELSE r.notified

mark_notified_lost(rs, reminder_id) == rs

mark_notified_delete(rs, reminder_id) ==
    SelectSeq(rs, LAMBDA r : r.id # reminder_id)

mark_notified_all(rs, reminder_id) ==
    [j \in 1..Len(rs) |-> [rs[j] EXCEPT !.notified = TRUE]]

\* UPDATE reminders SET notified=1 WHERE id=?
mark_notified(rs, reminder_id) ==
    [i \in 1..Len(rs) |-> [rs[i] EXCEPT !.notified = NotifiedAfterMark(rs[i], reminder_id)]]

----------------------------------------------------------------------------
\* processor.py: the handlers

Min(S) == CHOOSE x \in S : \A y \in S : x <= y

FirstConfigured_unsorted(table, t) ==
    LET hits == { i \in 1..Len(table) : Search({table[i]}, t) }
    IN  IF hits = {} THEN 0 ELSE Min(hits)

\* sorted(table, key=len, reverse=True), then the first name that occurs in
\* the text: the longest name, and among equally long ones the first of
\* the table (sorted is stable).  0 when no name occurs.
FirstConfigured(table, t) ==
    LET hits == { i \in 1..Len(table) : Search({table[i]}, t) }
    IN  IF hits = {} THEN 0
        ELSE CHOOSE i \in hits : \A j \in hits :
                \/ CharLen(table[i]) > CharLen(table[j])
                \/ CharLen(table[i]) = CharLen(table[j]) /\ i <= j

\* tokens that begin with a digit, with what
\* (\d{1,2})(?::(\d{2}))?\s*(am|pm)? reads from them: hour, minute (-1: group
\* absent), a meridiem inside the token, and whether the token is consumed
TimeToks == { "0", "2", "7", "8", "12", "13", "24", "25", "123", "8:75", "14:30",
              "8:5", "8pm" }

TimeTok(tok) ==
    CASE tok = "0"     -> [h |-> 0,  m |-> -1, mer |-> "",   full |-> TRUE]
      [] tok = "2"     -> [h |-> 2,  m |-> -1, mer |-> "",   full |-> TRUE]
      [] tok = "7"     -> [h |-> 7,  m |-> -1, mer |-> "",   full |-> TRUE]
      [] tok = "8"     -> [h |-> 8,  m |-> -1, mer |-> "",   full |-> TRUE]
      [] tok = "12"    -> [h |-> 12, m |-> -1, mer |-> "",   full |-> TRUE]
      [] tok = "13"    -> [h |-> 13, m |-> -1, mer |-> "",   full |-> TRUE]
      [] tok = "24"    -> [h |-> 24, m |-> -1, mer |-> "",   full |-> TRUE]
      [] tok = "25"    -> [h |-> 25, m |-> -1, mer |-> "",   full |-> TRUE]
      [] tok = "123"   -> [h |-> 12, m |-> -1, mer |-> "",   full |-> FALSE]
      [] tok = "8:75"  -> [h |-> 8,  m |-> 75, mer |-> "",   full |-> TRUE]
      [] tok = "14:30" -> [h |-> 14, m |-> 30, mer |-> "",   full |-> TRUE]
      [] tok = "8:5"   -> [h |-> 8,  m |-> -1, mer |-> "",   full |-> FALSE]
      [] tok = "8pm"   -> [h |-> 8,  m |-> -1, mer |-> "pm", full |-> TRUE]

\* tokens whose last two characters are "at"
EndsWithAt(tok) == tok \in {"at", "that", "what"}

\* re.search(r"at\s+(\d{1,2})(?::(\d{2}))?\s*(am|pm)?"): index of the number
\* token of the leftmost match, 0 when there is none
time_pattern(t) ==
    LET ms == { i \in 1..Len(t) : /\ EndsWithAt(t[i])
                                   /\ SkipSpace(t, i + 1) # 0
                                   /\ t[SkipSpace(t, i + 1)] \in TimeToks }
    IN  IF ms = {} THEN 0 ELSE SkipSpace(t, Min(ms) + 1)

\* group(3) of time_pattern
meridiem(t, j) ==
    LET tt == TimeTok(t[j])
        n  == SkipSpace(t, j + 1)
    IN  IF tt.mer # "" THEN tt.mer
        ELSE IF tt.full /\ n # 0 /\ t[n] \in {"am", "pm"} THEN t[n]
        ELSE ""

\* re.search(r"remind\s+me\s+to\s+(.+?)(?:\s+at\s+[\d:]+|\s*$)"): the first
\* token of group(1) for the leftmost match, 0 when there is none
TaskStart(t) ==
    LET ms == { i \in 1..Len(t) :
                  /\ t[i] = "remind"
                  /\ SkipSpace(t, i + 1) # 0
                  /\ t[SkipSpace(t, i + 1)] = "me"
                  /\ SkipSpace(t, SkipSpace(t, i + 1) + 1) # 0
                  /\ t[SkipSpace(t, SkipSpace(t, i + 1) + 1)] = "to"
                  /\ SkipSpace(t, SkipSpace(t, SkipSpace(t, i + 1) + 1) + 1) # 0 }
    IN  IF ms = {} THEN 0
        ELSE SkipSpace(t, SkipSpace(t, SkipSpace(t, Min(ms) + 1) + 1) + 1)

\* group(1) of task_match, stripped: the lazy (.+?) ends before the first
\* " at <digits>" that follows at least one character, else at the end
task_match(t) ==
    LET p    == TaskStart(t)
        ends == { a \in (p + 1)..Len(t) : /\ t[a] = "at"
                                           /\ SkipSpace(t, a + 1) # 0
                                           /\ t[SkipSpace(t, a + 1)] \in TimeToks }
    IN  IF ends = {} THEN strip(SubSeq(t, p, Len(t)))
        ELSE strip(SubSeq(t, p, Min(ends) - 1))

Hour24_am_kept(hour, mer) ==
    IF mer = "pm" /\ hour < 12 THEN hour + 12 ELSE hour

\* lines 260-263: hour in 24-hour form
Hour24(hour, mer) ==
    IF mer = "pm" /\ hour < 12 THEN hour + 12
    ELSE IF mer = "am" /\ hour = 12 THEN 0
    ELSE hour

\* now.replace(hour=hour, minute=minute, second=0, microsecond=0)
Replace(at, hour, minute) == (at \div Day) * Day + hour * 3600 + minute * 60

\* datetime.replace raises ValueError outside these ranges
ReplaceValid(hour, minute) == hour \in 0..23 /\ minute \in 0..59

RemindDt_lt(at, hour, minute) ==
    LET remind_dt == Replace(at, hour, minute)
    IN  IF remind_dt < at THEN remind_dt + Day ELSE remind_dt

\* lines 265-267
RemindDt(at, hour, minute) ==
    LET remind_dt == Replace(at, hour, minute)
    IN  IF remind_dt <= at THEN remind_dt + Day ELSE remind_dt

handle_remind_default_time(t, at) ==
    IF TaskStart(t) = 0
    THEN [kind |-> "ask_task", task |-> <<>>, remind_at |-> 0]
    ELSE IF time_pattern(t) = 0
    THEN [kind |-> "set", task |-> task_match(t), remind_at |-> RemindDt(at, 9, 0)]
    ELSE LET tt     == TimeTok(t[time_pattern(t)])
             hour   == Hour24(tt.h, meridiem(t, time_pattern(t)))
             minute == IF tt.m = -1 THEN 0 ELSE tt.m
         IN  IF ~ReplaceValid(hour, minute)
             THEN [kind |-> "ValueError", task |-> task_match(t), remind_at |-> 0]
             ELSE [kind |-> "set", task |-> task_match(t),
                   remind_at |-> RemindDt(at, hour, minute)]

\* Brain._handle_remind: the outcome, and for "set" the task and remind_at
\* passed to add_reminder
handle_remind(t, at) ==
    IF TaskStart(t) = 0
    THEN [kind |-> "ask_task", task |-> <<>>, remind_at |-> 0]
    ELSE IF time_pattern(t) = 0
    THEN [kind |-> "ask_time", task |-> task_match(t), remind_at |-> 0]
    ELSE LET tt     == TimeTok(t[time_pattern(t)])
             hour   == Hour24(tt.h, meridiem(t, time_pattern(t)))
             minute == IF tt.m = -1 THEN 0 ELSE tt.m
         IN  IF ~ReplaceValid(hour, minute)
             THEN [kind |-> "ValueError", task |-> task_match(t), remind_at |-> 0]
             ELSE [kind |-> "set", task |-> task_match(t),
                   remind_at |-> RemindDt(at, hour, minute)]

\* Brain._handle_remember: group(1) of remember\s+(?:that\s+)?(.+), stripped
handle_remember(t) ==
    LET i == Min({ j \in 1..(Len(t) - 1) : t[j] = "remember" })
        n == SkipSpace(t, i + 1)
    IN  IF n # 0 /\ t[n] = "that" /\ SkipSpace(t, n + 1) # 0
        THEN strip(SubSeq(t, SkipSpace(t, n + 1), Len(t)))
        ELSE strip(SubSeq(t, i + 1, Len(t)))

RECURSIVE Sub(_, _)
\* re.sub(r"\b(a1|a2|...)\b", "", t): every match, leftmost first and the
\* alternatives in their order, is replaced by nothing; the blanks around it
\* stay, which leaves surplus whitespace
Sub(alts, t) ==
    IF t = <<>> THEN <<>>
    ELSE LET m == { a \in 1..Len(alts) : PhraseAt(t, alts[a], 1) }
         IN  IF m = {} THEN <<Head(t)>> \o Sub(alts, Tail(t))
             ELSE <<" ">> \o Sub(alts, SubSeq(t, Len(alts[Min(m)]) + 1, Len(t)))

calc_prefix_alts == << <<"calculate">>, <<"what", "is">>, <<"compute">>,
                       <<"how", "much", "is">> >>
what_is_alts == << <<"what", "is">>, <<"what", "are">>, <<"who", "is">>,
                   <<"who", "was">>, <<"tell", "me", "about">>, <<"explain">>,
                   <<"define">>, <<"describe">> >>
search_alts == << <<"search", "for">>, <<"look", "up">>, <<"find">>, <<"google">>,
                  <<"search">> >>

\* tokens made of digits only, and their int()
Digits == { "0", "2", "7", "8", "12", "13", "24", "25", "123" }
int(tok) == IF tok = "123" THEN 123 ELSE TimeTok(tok).h

\* tokens within the class [\d\s\+\-\*\/\^\(\)\.]
MathToks == Digits \cup { " ", "+", "-", "*", "/", "^", "(", ")", "." }

RECURSIVE DropSpace(_)
DropSpace(t) ==
    IF t = <<>> THEN <<>>
    ELSE IF Head(t) = " " THEN DropSpace(Tail(t))
    ELSE <<Head(t)>> \o DropSpace(Tail(t))

RECURSIVE Pow(_, _)
Pow(a, b) == IF b = 0 THEN 1 ELSE a * Pow(a, b - 1)

\* eval(expr) for the expressions n, -n, +n and n op n; every other token
\* sequence the texts of this model produce is a SyntaxError.  A division
\* yields a float, kept as the pair of its operands.
Eval(e) ==
    IF Len(e) = 1 /\ e[1] \in Digits
    THEN [ok |-> TRUE, val |-> <<"int", int(e[1])>>]
    ELSE IF Len(e) = 2 /\ e[1] \in {"+", "-"} /\ e[2] \in Digits
    THEN [ok |-> TRUE, val |-> <<"int", IF e[1] = "-" THEN 0 - int(e[2]) ELSE int(e[2])>>]
    ELSE IF Len(e) = 3 /\ e[1] \in Digits /\ e[3] \in Digits
            /\ e[2] \in {"+", "-", "*", "/", "^"}
    THEN LET a == int(e[1])
             b == int(e[3])
         IN  CASE e[2] = "+" -> [ok |-> TRUE, val |-> <<"int", a + b>>]
               [] e[2] = "-" -> [ok |-> TRUE, val |-> <<"int", a - b>>]
               [] e[2] = "*" -> [ok |-> TRUE, val |-> <<"int", a * b>>]
               [] e[2] = "^" -> [ok |-> TRUE, val |-> <<"int", Pow(a, b)>>]
               [] e[2] = "/" -> IF b = 0 THEN [ok |-> FALSE, val |-> <<"ZeroDivisionError">>]
                                ELSE [ok |-> TRUE, val |-> <<"float", a, b>>]
    ELSE [ok |-> FALSE, val |-> <<"SyntaxError">>]

try_calculate_fault_answers(t) ==
    LET cleaned == strip(Sub(calc_prefix_alts, t))
    IN  IF cleaned = <<>> \/ \E i \in 1..Len(cleaned) : cleaned[i] \notin MathToks
        THEN <<>>
        ELSE <<"The answer is", Eval(DropSpace(cleaned)).val>>

try_calculate_lenient(t) ==
    LET cleaned == SelectSeq(strip(Sub(calc_prefix_alts, t)), LAMBDA tok : tok \in MathToks)
    IN  IF cleaned = <<>>
        THEN <<>>
        ELSE IF Eval(DropSpace(cleaned)).ok
        THEN <<"The answer is", Eval(DropSpace(cleaned)).val>>
        ELSE <<>>

\* Brain._try_calculate: <<>> stands for None
try_calculate(t) ==
    LET cleaned == strip(Sub(calc_prefix_alts, t))
    IN  IF cleaned = <<>> \/ \E i \in 1..Len(cleaned) : cleaned[i] \notin MathToks
        THEN <<>>
        ELSE IF Eval(DropSpace(cleaned)).ok
        THEN <<"The answer is", Eval(DropSpace(cleaned)).val>>
        ELSE <<>>

----------------------------------------------------------------------------
\* processor.py: Brain.process

\* What one call of Brain.process yields: the intent whose handler ran, the
\* response (a tag and its argument), should_exit, whether it raised instead
\* of returning, the store after the call and the collaborator call made.
Outcome(intent, resp, arg, terminate, ns, seq, rs, act) ==
    [intent |-> intent, resp |-> resp, arg |-> arg, terminate |-> terminate,
     raised |-> FALSE, notes |-> ns, noteSeq |-> seq, reminders |-> rs, act |-> act]

Raise(intent, exc, ns, seq, rs) ==
    [intent |-> intent, resp |-> exc, arg |-> <<>>, terminate |-> FALSE,
     raised |-> TRUE, notes |-> ns, noteSeq |-> seq, reminders |-> rs, act |-> <<>>]

\* lines 158-160: the remind intent
process_remind(t, at, ns, seq, rs) ==
    LET h == handle_remind(t, at)
    IN  CASE h.kind = "ask_task" ->
               Outcome("remind", "What should I remind you about, and at what time?",
                       <<>>, FALSE, ns, seq, rs, <<>>)
          [] h.kind = "ask_time" ->
               Outcome("remind", "When should I remind you to", h.task, FALSE,
                       ns, seq, rs, <<>>)
          [] h.kind = "ValueError" -> Raise("remind", "ValueError", ns, seq, rs)
          [] h.kind = "set" ->
               Outcome("remind", "Got it! I'll remind you to", <<h.task, h.remind_at>>,
                       FALSE, ns, seq, add_reminder(rs, h.task, h.remind_at), <<>>)

\* lines 177-202: calculator, weather, knowledge lookups, catch-all
process_tail(t, ns, seq, rs) ==
    IF try_calculate(t) # <<>>
    THEN Outcome("calc", "The answer is", try_calculate(t)[2], FALSE, ns, seq, rs, <<>>)
    ELSE IF Search(RE_weather, t)
    THEN Outcome("weather", "I don't have a weather API", <<>>, FALSE, ns, seq, rs, <<>>)
    ELSE IF Search(RE_what_is, t)
    THEN Outcome("what_is", "answer", <<>>, FALSE, ns, seq, rs,
                 <<"find_answer", strip(Sub(what_is_alts, t)), TRUE>>)
    ELSE IF Search(RE_search, t)
    THEN Outcome("search", "answer", <<>>, FALSE, ns, seq, rs,
                 <<"find_answer", strip(Sub(search_alts, t)), FALSE>>)
    ELSE IF Search(RE_news, t)
    THEN Outcome("news", "answer", <<>>, FALSE, ns, seq, rs,
                 <<"find_answer", <<"latest", "news", "today">>, FALSE>>)
    ELSE Outcome("catch_all", "answer", <<>>, FALSE, ns, seq, rs,
                 <<"find_answer", t, TRUE>>)

process_memory_remember_first(t, at, ns, seq, rs) ==
    IF Match_remember(t)
    THEN Outcome("remember", "I'll remember that", handle_remember(t), FALSE,
                 save_memory(ns, seq, handle_remember(t), at).notes,
                 save_memory(ns, seq, handle_remember(t), at).noteSeq, rs, <<>>)
    ELSE IF Match_remind(t) THEN process_remind(t, at, ns, seq, rs)
    ELSE IF Search(RE_list_reminders, t)
    THEN Outcome("list_reminders", "Your reminders", get_pending_reminders(rs), FALSE,
                 ns, seq, rs, <<>>)
    ELSE IF Search(RE_recall, t)
    THEN Outcome("recall", "Here's what I remember", get_all_memories(ns), FALSE,
                 ns, seq, rs, <<>>)
    ELSE IF Search(RE_clear_memory, t)
    THEN Outcome("clear_memory", "I've cleared all stored memories.", <<>>, FALSE,
                 clear_memories(ns), seq, rs, <<>>)
    ELSE process_tail(t, ns, seq, rs)

process_memory_lookup_first(t, at, ns, seq, rs) ==
    IF Search(RE_search, t)
    THEN Outcome("search", "answer", <<>>, FALSE, ns, seq, rs,
                 <<"find_answer", strip(Sub(search_alts, t)), FALSE>>)
    ELSE IF Match_remind(t) THEN process_remind(t, at, ns, seq, rs)
    ELSE IF Search(RE_list_reminders, t)
    THEN Outcome("list_reminders", "Your reminders", get_pending_reminders(rs), FALSE,
                 ns, seq, rs, <<>>)
    ELSE IF Match_remember(t)
    THEN Outcome("remember", "I'll remember that", handle_remember(t), FALSE,
                 save_memory(ns, seq, handle_remember(t), at).notes,
                 save_memory(ns, seq, handle_remember(t), at).noteSeq, rs, <<>>)
    ELSE IF Search(RE_recall, t)
    THEN Outcome("recall", "Here's what I remember", get_all_memories(ns), FALSE,
                 ns, seq, rs, <<>>)
    ELSE IF Search(RE_clear_memory, t)
    THEN Outcome("clear_memory", "I've cleared all stored memories.", <<>>, FALSE,
                 clear_memories(ns), seq, rs, <<>>)
    ELSE process_tail(t, ns, seq, rs)

\* lines 158-175: reminders and memory
process_memory(t, at, ns, seq, rs) ==
    IF Match_remind(t) THEN process_remind(t, at, ns, seq, rs)
    ELSE IF Search(RE_list_reminders, t)
    THEN Outcome("list_reminders", "Your reminders", get_pending_reminders(rs), FALSE,
                 ns, seq, rs, <<>>)
    ELSE IF Match_remember(t)
    THEN Outcome("remember", "I'll remember that", handle_remember(t), FALSE,
                 save_memory(ns, seq, handle_remember(t), at).notes,
                 save_memory(ns, seq, handle_remember(t), at).noteSeq, rs, <<>>)
    ELSE IF Search(RE_recall, t)
    THEN Outcome("recall", "Here's what I remember", get_all_memories(ns), FALSE,
                 ns, seq, rs, <<>>)
    ELSE IF Search(RE_clear_memory, t)
    THEN Outcome("clear_memory", "I've cleared all stored memories.", <<>>, FALSE,
                 clear_memories(ns), seq, rs, <<>>)
    ELSE process_tail(t, ns, seq, rs)

\* lines 140-156: open folder, open app, close app; each falls through when
\* its handler returns None
process_apps(t, at, ns, seq, rs) ==
    IF Match_open_folder(t) /\ FirstConfigured(FOLDER_COMMANDS, t) # 0
    THEN Outcome("open_folder", "open_folder", <<>>, FALSE, ns, seq, rs,
                 <<"open_folder", FOLDER_COMMANDS[FirstConfigured(FOLDER_COMMANDS, t)]>>)
    ELSE IF Search(RE_open_app, t) /\ FirstConfigured(APP_COMMANDS, t) # 0
    THEN Outcome("open_app", "open_app", <<>>, FALSE, ns, seq, rs,
                 <<"open_app", APP_COMMANDS[FirstConfigured(APP_COMMANDS, t)]>>)
    ELSE IF Search(RE_close_app, t) /\ FirstConfigured(PROCESS_NAMES, t) # 0
    THEN Outcome("close_app", "close_app", <<>>, FALSE, ns, seq, rs,
                 <<"close_app", PROCESS_NAMES[FirstConfigured(PROCESS_NAMES, t)]>>)
    ELSE process_memory(t, at, ns, seq, rs)

\* lines 122-138: system control
process_system_shutdown_exits(t, at, ns, seq, rs) ==
    LET Sys(name, arg) == Outcome(name, name, <<>>, name = "shutdown_pc", ns, seq, rs,
                                  <<name, arg>>)
    IN  IF Search(RE_lock, t) THEN Sys("lock_screen", <<>>)
        ELSE IF Search(RE_shutdown, t) THEN Sys("shutdown_pc", <<>>)
        ELSE IF Search(RE_restart, t) THEN Sys("restart_pc", <<>>)
        ELSE IF Search(RE_sleep_pc, t) THEN Sys("sleep_pc", <<>>)
        ELSE IF Search(RE_screenshot, t) THEN Sys("take_screenshot", <<>>)
        ELSE IF Search(RE_volume_up, t) THEN Sys("volume_change", <<"up">>)
        ELSE IF Search(RE_volume_down, t) THEN Sys("volume_change", <<"down">>)
        ELSE IF Search(RE_mute, t) THEN Sys("volume_change", <<"mute">>)
        ELSE process_apps(t, at, ns, seq, rs)

process_system(t, at, ns, seq, rs) ==
    LET Sys(name, arg) == Outcome(name, name, <<>>, FALSE, ns, seq, rs, <<name, arg>>)
    IN  IF Search(RE_lock, t) THEN Sys("lock_screen", <<>>)
        ELSE IF Search(RE_shutdown, t) THEN Sys("shutdown_pc", <<>>)
        ELSE IF Search(RE_restart, t) THEN Sys("restart_pc", <<>>)
        ELSE IF Search(RE_sleep_pc, t) THEN Sys("sleep_pc", <<>>)
        ELSE IF Search(RE_screenshot, t) THEN Sys("take_screenshot", <<>>)
        ELSE IF Search(RE_volume_up, t) THEN Sys("volume_change", <<"up">>)
        ELSE IF Search(RE_volume_down, t) THEN Sys("volume_change", <<"down">>)
        ELSE IF Search(RE_mute, t) THEN Sys("volume_change", <<"mute">>)
        ELSE process_apps(t, at, ns, seq, rs)

process_greeting_first(text, at, ns, seq, rs) ==
    LET t == lower(strip(text))
    IN  IF t = <<>>
        THEN Outcome("empty", "I didn't catch that. Could you repeat?", <<>>, FALSE,
                     ns, seq, rs, <<>>)
        ELSE IF Search(GREETING_PATTERNS, t)
        THEN Outcome("greeting", "greet", <<>>, FALSE, ns, seq, rs, <<>>)
        ELSE IF Search(FAREWELL_PATTERNS, t)
        THEN Outcome("farewell", "Take care", <<>>, TRUE, ns, seq, rs, <<>>)
        ELSE IF Search(HOW_ARE_YOU_PATTERNS, t)
        THEN Outcome("how_are_you", "I'm running perfectly", <<>>, FALSE, ns, seq, rs, <<>>)
        ELSE IF Search(RE_time, t)
        THEN Outcome("time", "It's currently", <<at>>, FALSE, ns, seq, rs, <<>>)
        ELSE IF Search(RE_date, t)
        THEN Outcome("date", "Today is", <<at \div Day>>, FALSE, ns, seq, rs, <<>>)
        ELSE IF Search(RE_day, t)
        THEN Outcome("day", "Today is", <<at \div Day>>, FALSE, ns, seq, rs, <<>>)
        ELSE IF Search(RE_joke, t)
        THEN Outcome("joke", "joke", <<>>, FALSE, ns, seq, rs, <<>>)
        ELSE process_system(t, at, ns, seq, rs)

\* Brain.process(text) at instant `at` on the store <<ns, seq, rs>>
process(text, at, ns, seq, rs) ==
    LET t == lower(strip(text))
    IN  IF t = <<>>
        THEN Outcome("empty", "I didn't catch that. Could you repeat?", <<>>, FALSE,
                     ns, seq, rs, <<>>)
        ELSE IF Search(FAREWELL_PATTERNS, t)
        THEN Outcome("farewell", "Take care", <<>>, TRUE, ns, seq, rs, <<>>)
        ELSE IF Search(GREETING_PATTERNS, t)
        THEN Outcome("greeting", "greet", <<>>, FALSE, ns, seq, rs, <<>>)
        ELSE IF Search(HOW_ARE_YOU_PATTERNS, t)
        THEN Outcome("how_are_you", "I'm running perfectly", <<>>, FALSE, ns, seq, rs, <<>>)
        ELSE IF Search(RE_time, t)
        THEN Outcome("time", "It's currently", <<at>>, FALSE, ns, seq, rs, <<>>)
        ELSE IF Search(RE_date, t)
        THEN Outcome("date", "Today is", <<at \div Day>>, FALSE, ns, seq, rs, <<>>)
        ELSE IF Search(RE_day, t)
        THEN Outcome("day", "Today is", <<at \div Day>>, FALSE, ns, seq, rs, <<>>)
        ELSE IF Search(RE_joke, t)
        THEN Outcome("joke", "joke", <<>>, FALSE, ns, seq, rs, <<>>)
        ELSE process_system(t, at, ns, seq, rs)

----------------------------------------------------------------------------
\* The program as main.py wires it: one MemoryStore, one Speaker, the session
\* loop of run() and the ReminderThread started by initialize().

Pollers == {"t1", "t2"}    \* ReminderThread objects; t1 is reminder_thread of main.py
Ids == 1..MaxReminders

\* 07:59:58 of day 0
StartNow == 8 * 3600 - 2

\* what listener.listen() may return
Utterances ==
    { <<>>, <<"help">>, <<"bye">>,
      <<"remind", "me", "to", "call", "mom", "at", "8">>,
      <<"remind", "me", "to", "call", "mom", "at", "25">> }

HelpPhrases == { <<"help">>, <<"help", "me">>, <<"what", "can", "you", "do">>,
                 <<"commands">> }

NoResponse == [intent |-> "", resp |-> "", terminate |-> FALSE]

\* a reminder an earlier run of the assistant left in data/jarvis.db, due
\* before this run starts
Persisted ==
    <<[id |-> 1, task |-> <<"take", "medicine">>, remind_at |-> StartNow - 60,
       notified |-> FALSE]>>

\* two reminders an earlier run left: the one added later is set for the
\* earlier instant, and both came due while the assistant was not running
PersistedTwo ==
    <<[id |-> 1, task |-> <<"take", "medicine">>, remind_at |-> StartNow - 60,
       notified |-> FALSE],
      [id |-> 2, task |-> <<"call", "mom">>, remind_at |-> StartNow - 120,
       notified |-> FALSE]>>

\* a note an earlier run left in data/jarvis.db
PersistedNotes == <<[id |-> 1, content |-> <<"x">>, saved_at |-> 0]>>

\* who calls the MemoryStore: the session loop and the scheduler thread
Callers == {"main", "t1"}

NoCall == [phase |-> "out", op |-> "", arg |-> <<>>, result |-> <<>>]

\* MemoryStore.__init__: the lock is free and no operation is running
InitLock ==
    /\ storeLock = "free"
    /\ conn = [c \in Callers |-> NoCall]

\* MemoryStore.__init__: CREATE TABLE IF NOT EXISTS keeps the rows of an
\* existing database
InitStore ==
    /\ notes = <<>>
    /\ noteSeq = 0
    /\ reminders \in {<<>>, Persisted, PersistedTwo}
    /\ InitLock

InitThreads(started) ==
    /\ pc = [s \in Pollers |-> IF s \in started THEN "while" ELSE "off"]
    /\ due = [s \in Pollers |-> <<>>]
    /\ idx = [s \in Pollers |-> 0]
    /\ k = [s \in Pollers |-> 0]
    /\ deadline = [s \in Pollers |-> 0]
    /\ stop_event = [s \in Pollers |-> FALSE]
    /\ calls = [s \in Pollers |-> [i \in Ids |-> 0]]
    /\ stopAt = -1

InitMain ==
    /\ speakerLock = "free"
    /\ mpc = "listen"
    /\ response = NoResponse
    /\ last = <<>>

Init ==
    /\ InitStore
    /\ now = StartNow
    /\ horizon = StartNow + MaxTicks
    /\ InitThreads({"t1"})
    /\ InitMain

\* ---- ReminderThread.run ----

is_set_never(s) == FALSE

\* self._stop_event.is_set(), also what wakes self._stop_event.wait
is_set(s) == stop_event[s]

SchedWhile_unchecked(s) ==
    /\ pc[s] = "while"
    /\ pc' = [pc EXCEPT ![s] = "fetch"]
    /\ UNCHANGED <<storeVars, clockVars, due, idx, k, deadline, stop_event, calls, stopAt,
                   speakerLock, mainVars, last>>

\* line 135: while not self._stop_event.is_set()
SchedWhile(s) ==
    /\ pc[s] = "while"
    /\ pc' = [pc EXCEPT ![s] = IF is_set(s) THEN "done" ELSE "fetch"]
    /\ UNCHANGED <<storeVars, clockVars, due, idx, k, deadline, stop_event, calls, stopAt,
                   speakerLock, mainVars, last>>

\* line 136: due = self.memory.get_due_reminders(); an empty list goes on to the wait
SchedFetch(s) ==
    /\ pc[s] = "fetch"
    /\ due' = [due EXCEPT ![s] = get_due_reminders(reminders, now)]
    /\ idx' = [idx EXCEPT ![s] = 1]
    /\ k' = [k EXCEPT ![s] = 0]
    /\ pc' = [pc EXCEPT ![s] = IF due'[s] = <<>> THEN "sleep" ELSE "callback"]
    /\ UNCHANGED <<storeVars, clockVars, deadline, stop_event, calls, stopAt,
                   speakerLock, mainVars, last>>

SchedCallback_marks(s) ==
    /\ pc[s] = "callback"
    /\ calls' = [calls EXCEPT ![s][due[s][idx[s]].id] = @ + 1]
    /\ reminders' = mark_notified(reminders, due[s][idx[s]].id)
    /\ pc' = [pc EXCEPT ![s] = "say_lock"]
    /\ UNCHANGED <<notes, noteSeq, lockVars, clockVars, due, idx, k, deadline, stop_event,
                   stopAt, speakerLock, mainVars, last>>

\* line 140: self.callback(msg) is entered; Speaker.say prints, then wants the lock
SchedCallback(s) ==
    /\ pc[s] = "callback"
    /\ calls' = [calls EXCEPT ![s][due[s][idx[s]].id] = @ + 1]
    /\ pc' = [pc EXCEPT ![s] = "say_lock"]
    /\ UNCHANGED <<storeVars, clockVars, due, idx, k, deadline, stop_event, stopAt,
                   speakerLock, mainVars, last>>

SchedSayAcquire_unlocked(s) ==
    /\ pc[s] = "say_lock"
    /\ speakerLock' = s
    /\ pc' = [pc EXCEPT ![s] = "say_play"]
    /\ UNCHANGED <<storeVars, clockVars, due, idx, k, deadline, stop_event, calls, stopAt,
                   mainVars, last>>

\* speech_output.py line 48: with self._lock
SchedSayAcquire(s) ==
    /\ pc[s] = "say_lock"
    /\ speakerLock = "free"
    /\ speakerLock' = s
    /\ pc' = [pc EXCEPT ![s] = "say_play"]
    /\ UNCHANGED <<storeVars, clockVars, due, idx, k, deadline, stop_event, calls, stopAt,
                   mainVars, last>>

\* speech_output.py lines 49-50: playback ends, the callback returns
SchedSayReturn(s) ==
    /\ pc[s] = "say_play"
    /\ speakerLock' = "free"
    /\ pc' = [pc EXCEPT ![s] = "mark"]
    /\ UNCHANGED <<storeVars, clockVars, due, idx, k, deadline, stop_event, calls, stopAt,
                   mainVars, last>>

SchedSayRaise_marks(s) ==
    /\ pc[s] = "say_play"
    /\ speakerLock' = "free"
    /\ reminders' = mark_notified(reminders, due[s][idx[s]].id)
    /\ pc' = [pc EXCEPT ![s] = "crashed"]
    /\ UNCHANGED <<notes, noteSeq, lockVars, clockVars, due, idx, k, deadline, stop_event,
                   calls, stopAt, mainVars, last>>

\* speech_output.py lines 49-50: the engine raises; nothing in run() catches it
SchedSayRaise(s) ==
    /\ pc[s] = "say_play"
    /\ speakerLock' = "free"
    /\ pc' = [pc EXCEPT ![s] = "crashed"]
    /\ UNCHANGED <<storeVars, clockVars, due, idx, k, deadline, stop_event, calls, stopAt,
                   mainVars, last>>

\* line 141: self.memory.mark_notified(r["id"]), then the next r or the wait
SchedMark(s) ==
    /\ pc[s] = "mark"
    /\ reminders' = mark_notified(reminders, due[s][idx[s]].id)
    /\ idx' = [idx EXCEPT ![s] = @ + 1]
    /\ pc' = [pc EXCEPT ![s] = IF idx[s] + 1 > Len(due[s]) THEN "sleep" ELSE "callback"]
    /\ UNCHANGED <<notes, noteSeq, lockVars, clockVars, due, k, deadline, stop_event, calls,
                   stopAt, speakerLock, mainVars, last>>

\* line 141 raises (sqlite3.Error out of connect, execute or commit): the
\* UPDATE is not committed, run() has no try, the exception ends the thread
SchedMarkRaise(s) ==
    /\ pc[s] = "mark"
    /\ pc' = [pc EXCEPT ![s] = "mark_crashed"]
    /\ UNCHANGED <<storeVars, clockVars, due, idx, k, deadline, stop_event, calls, stopAt,
                   speakerLock, mainVars, last>>

\* lines 143-145: for _ in range(30): if self._stop_event.is_set(): break.
\* The clock stands for every later instant once it is at the horizon, so a
\* timeout that would end beyond the horizon ends there.
SchedSleep(s) ==
    /\ pc[s] = "sleep"
    /\ IF k[s] = PollTicks \/ is_set(s)
       THEN /\ pc' = [pc EXCEPT ![s] = "while"]
            /\ UNCHANGED deadline
       ELSE /\ pc' = [pc EXCEPT ![s] = "wait"]
            /\ deadline' = [deadline EXCEPT ![s] = Min({now + WaitTimeout, horizon})]
    /\ UNCHANGED <<storeVars, clockVars, due, idx, k, stop_event, calls, stopAt,
                   speakerLock, mainVars, last>>

\* line 146: self._stop_event.wait(timeout=1) returns: the event is set or
\* the timeout has expired
SchedWait(s) ==
    /\ pc[s] = "wait"
    /\ is_set(s) \/ now >= deadline[s]
    /\ k' = [k EXCEPT ![s] = @ + 1]
    /\ deadline' = [deadline EXCEPT ![s] = 0]
    /\ pc' = [pc EXCEPT ![s] = "sleep"]
    /\ UNCHANGED <<storeVars, clockVars, due, idx, stop_event, calls, stopAt,
                   speakerLock, mainVars, last>>

Sched(s) ==
    \/ SchedWhile(s)
    \/ SchedFetch(s)
    \/ SchedCallback(s)
    \/ SchedSayAcquire(s)
    \/ SchedSayReturn(s)
    \/ SchedSayRaise(s)
    \/ SchedMark(s)
    \/ SchedSleep(s)
    \/ SchedWait(s)

\* a thread that can take a step which does not block
Urgent(s) ==
    \/ pc[s] \in {"while", "fetch", "callback", "mark", "sleep"}
    \/ pc[s] = "say_lock" /\ speakerLock = "free"
    \/ pc[s] = "wait" /\ (is_set(s) \/ now >= deadline[s])

\* one second passes; only playback, a held lock and wait(timeout=1) take time
Tick ==
    /\ now < horizon
    /\ \A s \in Pollers : ~Urgent(s)
    /\ now' = now + 1
    /\ UNCHANGED <<horizon, storeVars, schedVars, speakerLock, mainVars, last>>

\* ---- main.run ----

Gate_any_input(wake, text) ==
    IF text = <<>> THEN [branch |-> "empty", user_input |-> <<>>]
    ELSE IF strip(text) \in HelpPhrases THEN [branch |-> "help", user_input |-> <<>>]
    ELSE [branch |-> "route",
          user_input |-> IF wake = <<>> THEN text ELSE strip(Sub(<<lower(wake)>>, text))]

\* lines 82-98: what run() does with the text listen() returned when
\* config.WAKE_WORD is wake: loop on an empty text, answer a help phrase
\* locally, ignore a text without the wake word, else hand user_input (the
\* wake word replaced by nothing, stripped) to brain.process
Gate(wake, text) ==
    IF text = <<>> THEN [branch |-> "empty", user_input |-> <<>>]
    ELSE IF strip(text) \in HelpPhrases THEN [branch |-> "help", user_input |-> <<>>]
    ELSE IF wake # <<>> /\ ~Search({lower(wake)}, text)
    THEN [branch |-> "ignored", user_input |-> <<>>]
    ELSE [branch |-> "route",
          user_input |-> IF wake = <<>> THEN text ELSE strip(Sub(<<lower(wake)>>, text))]

\* lines 80-101 with config.WAKE_WORD = wake: listener.listen() returns text;
\* an empty text loops, a help phrase is answered locally, a text without
\* the wake word is ignored, anything else goes to brain.process, which
\* returns or raises
MainListenWith(wake, text) ==
    /\ mpc = "listen"
    /\ LET g == Gate(wake, text)
       IN  CASE g.branch \in {"empty", "ignored"} -> UNCHANGED <<storeVars, mainVars>>
             [] g.branch = "help" ->
                  /\ response' = [intent |-> "help", resp |-> "I can search Wikipedia",
                                  terminate |-> FALSE]
                  /\ mpc' = "say"
                  /\ UNCHANGED storeVars
             [] g.branch = "route" ->
                  \E o \in {process(g.user_input, now, notes, noteSeq, reminders)} :
                      /\ Len(o.reminders) <= MaxReminders
                      /\ o.noteSeq <= MaxNotes
                      /\ notes' = o.notes
                      /\ noteSeq' = o.noteSeq
                      /\ reminders' = o.reminders
                      /\ UNCHANGED lockVars
                      /\ IF o.raised
                         THEN mpc' = "except" /\ UNCHANGED response
                         ELSE /\ mpc' = "say"
                              /\ response' = [intent |-> o.intent, resp |-> o.resp,
                                              terminate |-> o.terminate]
    /\ UNCHANGED <<clockVars, schedVars, speakerLock>>

\* lines 80-101 as config.py has it
MainListen(text) ==
    /\ MainListenWith(WAKE_WORD, text)
    /\ UNCHANGED last

\* line 80: the listener raises
MainListenRaise ==
    /\ mpc = "listen"
    /\ mpc' = "except"
    /\ UNCHANGED <<storeVars, clockVars, schedVars, speakerLock, response, last>>

\* line 111: KeyboardInterrupt while the loop is blocked in listen or in playback
MainInterrupt ==
    /\ mpc \in {"listen", "playing"}
    /\ mpc' = "interrupt"
    /\ speakerLock' = IF mpc = "playing" THEN "free" ELSE speakerLock
    /\ response' = NoResponse
    /\ UNCHANGED <<storeVars, clockVars, schedVars, last>>

\* lines 105, 112, 116: speaker.say takes the lock
MainSayAcquire ==
    /\ mpc \in {"say", "except", "interrupt"}
    /\ speakerLock = "free"
    /\ speakerLock' = "main"
    /\ mpc' = CASE mpc = "say" -> "playing"
                [] mpc = "except" -> "except_play"
                [] mpc = "interrupt" -> "interrupt_play"
    /\ UNCHANGED <<storeVars, clockVars, schedVars, response, last>>

\* lines 105-109: the response has been spoken; break when should_exit
MainSayReturn ==
    /\ mpc = "playing"
    /\ speakerLock' = "free"
    /\ mpc' = IF response.terminate THEN "cleanup" ELSE "listen"
    /\ response' = NoResponse
    /\ UNCHANGED <<storeVars, clockVars, schedVars, last>>

\* line 105 raises: except Exception; response and should_exit keep the
\* values line 101 gave them
MainSayRaise ==
    /\ mpc = "playing"
    /\ speakerLock' = "free"
    /\ mpc' = "except"
    /\ UNCHANGED <<storeVars, clockVars, schedVars, response, last>>

\* lines 116-117: "Something went wrong" has been spoken; continue
MainExceptReturn ==
    /\ mpc = "except_play"
    /\ speakerLock' = "free"
    /\ mpc' = "listen"
    /\ UNCHANGED <<storeVars, clockVars, schedVars, response, last>>

\* lines 112-113: the farewell of the interrupt has been spoken; break
MainInterruptReturn ==
    /\ mpc = "interrupt_play"
    /\ speakerLock' = "free"
    /\ mpc' = "cleanup"
    /\ UNCHANGED <<storeVars, clockVars, schedVars, response, last>>

\* lines 112, 116: speaker.say raises inside an except clause; the exception
\* leaves run(), from the fault report ("crashed") or from the farewell of an
\* interrupt ("interrupt_crashed")
MainHandlerRaise ==
    /\ mpc \in {"except_play", "interrupt_play"}
    /\ speakerLock' = "free"
    /\ mpc' = IF mpc = "except_play" THEN "crashed" ELSE "interrupt_crashed"
    /\ UNCHANGED <<storeVars, clockVars, schedVars, response, last>>

\* line 120 with ReminderThread.stop: reminder_thread.stop()
MainCleanup ==
    /\ mpc = "cleanup"
    /\ stop_event' = [stop_event EXCEPT !["t1"] = TRUE]
    /\ stopAt' = now
    /\ mpc' = "exited"
    /\ UNCHANGED <<storeVars, clockVars, pc, due, idx, k, deadline, calls,
                   speakerLock, response, last>>

Main ==
    \/ \E text \in Utterances : MainListen(text)
    \/ MainListenRaise
    \/ MainInterrupt
    \/ MainSayAcquire
    \/ MainSayReturn
    \/ MainSayRaise
    \/ MainExceptReturn
    \/ MainInterruptReturn
    \/ MainHandlerRaise
    \/ MainCleanup

Next ==
    \/ \E s \in Pollers : Sched(s)
    \/ Main
    \/ Tick

Spec == Init /\ [][Next]_vars

\* two ReminderThread objects polling the one MemoryStore, the session loop
\* idle in listen()
InitPollers ==
    /\ InitStore
    /\ now = StartNow
    /\ horizon = StartNow + WaitTimeout
    /\ InitThreads({"t1", "t2"})
    /\ InitMain

NextPollers ==
    \/ \E s \in Pollers : Sched(s)
    \/ Tick

SpecPollers == InitPollers /\ [][NextPollers]_vars

\* the program under fair scheduling: the scheduler thread runs whenever it
\* can, it gets the speaker lock if the lock keeps coming free, time passes
\* while every thread is blocked, and a playback of the session loop ends
InitLive ==
    /\ InitStore
    /\ now = StartNow
    /\ horizon = StartNow + MaxClock
    /\ InitThreads({"t1"})
    /\ InitMain

MainPlaybackEnds ==
    \/ MainSayReturn
    \/ MainSayRaise
    \/ MainExceptReturn
    \/ MainInterruptReturn
    \/ MainHandlerRaise

SpecLive ==
    /\ InitLive
    /\ [][Next]_vars
    /\ WF_vars(Sched("t1"))
    /\ SF_vars(SchedSayAcquire("t1"))
    /\ WF_vars(Tick)
    /\ WF_vars(MainPlaybackEnds)

\* the program on a database whose UPDATE can fail (locked by another
\* process, disk full, file removed)
NextMarkFault ==
    \/ Next
    \/ SchedMarkRaise("t1")

SpecMarkFault == InitLive /\ [][NextMarkFault]_vars

\* the session loop alone, with and without a wake word in config.py; the
\* harness keeps the configured word and what the last listen() returned
WakeWords == { <<>>, <<"NEXIS">> }

Heard ==
    { <<>>, <<"help">>, <<"what", "can", "you", "do">>, <<"nexis">>,
      <<"nexis", "help">>, <<"open", "chrome">>, <<"nexis", "open", "chrome">>,
      <<"remember", "that", "x">>, <<"nexis", "remember", "that", "nexis", "x">>,
      <<"forget", "everything", "nexis">>,
      <<"remind", "me", "to", "call", "mom", "at", "25">>,
      <<"bye">>, <<"bye", "nexis">> }

InitWake ==
    /\ notes \in {<<>>, PersistedNotes}
    /\ noteSeq = Len(notes)
    /\ reminders = <<>>
    /\ InitLock
    /\ now = StartNow
    /\ horizon = StartNow
    /\ InitThreads({})
    /\ speakerLock = "free"
    /\ mpc = "listen"
    /\ response = NoResponse
    /\ \E wake \in WakeWords :
          last = [op |-> "init", wake |-> wake, arg |-> <<>>, user_input |-> <<>>]

HeardListen(text) ==
    /\ MainListenWith(last.wake, text)
    /\ last' = [op |-> "heard", wake |-> last.wake, arg |-> text,
                user_input |-> Gate(last.wake, text).user_input]

NextWake ==
    \/ \E text \in Heard : HeardListen(text)
    \/ MainSayAcquire
    \/ MainSayReturn
    \/ MainExceptReturn
    \/ MainCleanup

SpecWake == InitWake /\ [][NextWake]_vars

----------------------------------------------------------------------------
\* The MemoryStore API called directly, any call at any time; the two tables
\* share no row and no statement, so each is explored on its own

Contents == { <<" ", "x", " ">>, <<"y">> }
Tasks == { <<"call", "mom">> }

StoreNow == <<notes, noteSeq, reminders>>

Called(op, arg, result) ==
    [op |-> op, arg |-> arg, before |-> StoreNow, result |-> result,
     repeat |-> last.op = op /\ last.arg = arg]

InitApi ==
    /\ notes \in {<<>>, PersistedNotes}
    /\ noteSeq = Len(notes)
    /\ reminders = <<>>
    /\ InitLock
    /\ now = 0
    /\ horizon = MaxClock
    /\ InitThreads({})
    /\ speakerLock = "free"
    /\ mpc = "off"
    /\ response = NoResponse
    /\ last = [op |-> "init", arg |-> <<>>, before |-> <<>>, result |-> <<>>,
               repeat |-> FALSE]

ApiSaveMemory(content) ==
    /\ noteSeq < MaxNotes
    /\ notes' = save_memory(notes, noteSeq, content, now).notes
    /\ noteSeq' = save_memory(notes, noteSeq, content, now).noteSeq
    /\ last' = Called("save_memory", <<content>>, <<>>)
    /\ UNCHANGED <<reminders, lockVars, clockVars, schedVars, speakerLock, mainVars>>

ApiGetAllMemories ==
    /\ last' = Called("get_all_memories", <<>>, get_all_memories(notes))
    /\ UNCHANGED <<storeVars, clockVars, schedVars, speakerLock, mainVars>>

ApiClearMemories ==
    /\ notes' = clear_memories(notes)
    /\ last' = Called("clear_memories", <<>>, <<>>)
    /\ UNCHANGED <<noteSeq, reminders, lockVars, clockVars, schedVars, speakerLock,
                   mainVars>>

ApiAddReminder(task, remind_at) ==
    /\ Len(reminders) < MaxReminders
    /\ reminders' = add_reminder(reminders, task, remind_at)
    /\ last' = Called("add_reminder", <<task, remind_at>>, <<>>)
    /\ UNCHANGED <<notes, noteSeq, lockVars, clockVars, schedVars, speakerLock, mainVars>>

ApiGetPendingReminders ==
    /\ last' = Called("get_pending_reminders", <<>>, get_pending_reminders(reminders))
    /\ UNCHANGED <<storeVars, clockVars, schedVars, speakerLock, mainVars>>

ApiGetDueReminders ==
    /\ last' = Called("get_due_reminders", <<now>>, get_due_reminders(reminders, now))
    /\ UNCHANGED <<storeVars, clockVars, schedVars, speakerLock, mainVars>>

ApiMarkNotified(reminder_id) ==
    /\ reminders' = mark_notified(reminders, reminder_id)
    /\ last' = Called("mark_notified", <<reminder_id>>, <<>>)
    /\ UNCHANGED <<notes, noteSeq, lockVars, clockVars, schedVars, speakerLock, mainVars>>

ApiTick ==
    /\ now < horizon
    /\ now' = now + 1
    /\ UNCHANGED <<horizon, storeVars, schedVars, speakerLock, mainVars, last>>

\* the reminders table
NextApi ==
    \/ \E task \in Tasks, remind_at \in 1..MaxClock : ApiAddReminder(task, remind_at)
    \/ ApiGetPendingReminders
    \/ ApiGetDueReminders
    \/ \E reminder_id \in 1..(MaxReminders + 1) : ApiMarkNotified(reminder_id)
    \/ ApiTick

SpecApi == InitApi /\ [][NextApi]_vars

\* the memories table
NextNotes ==
    \/ \E content \in Contents : ApiSaveMemory(content)
    \/ ApiGetAllMemories
    \/ ApiClearMemories
    \/ ApiTick

SpecNotes == InitApi /\ [][NextNotes]_vars

----------------------------------------------------------------------------
\* The MemoryStore operations step by step, as two threads run them: each is
\*     with self._lock, self._connect() as conn: conn.execute(...); conn.commit()
\* The session loop (through Brain) calls the memories operations,
\* add_reminder and get_pending_reminders; the scheduler thread calls
\* get_due_reminders and mark_notified.

OpsOf(c) ==
    IF c = "main"
    THEN {"save_memory", "get_all_memories", "clear_memories", "add_reminder",
          "get_pending_reminders"}
    ELSE {"get_due_reminders", "mark_notified"}

ArgsOf(op) ==
    CASE op = "save_memory"       -> { <<c>> : c \in {<<"y">>} }
      [] op = "add_reminder"      -> { <<t, at>> : t \in Tasks, at \in {now, now + 1} }
      [] op = "get_due_reminders" -> { <<now>> }
      [] op = "mark_notified"     -> { <<id>> : id \in Ids }
      [] OTHER                    -> { <<>> }

IsWrite(op) == op \in {"save_memory", "clear_memories", "add_reminder", "mark_notified"}

\* the rows a SELECT of the operation returns from the committed tables
Query(op, arg) ==
    CASE op = "get_all_memories"      -> get_all_memories(notes)
      [] op = "get_pending_reminders" -> get_pending_reminders(reminders)
      [] op = "get_due_reminders"     -> get_due_reminders(reminders, arg[1])
      [] OTHER                        -> <<>>

\* the tables after the statement of the operation is committed
Committed(op, arg) ==
    CASE op = "save_memory" ->
           <<save_memory(notes, noteSeq, arg[1], now).notes,
             save_memory(notes, noteSeq, arg[1], now).noteSeq, reminders>>
      [] op = "clear_memories" -> <<clear_memories(notes), noteSeq, reminders>>
      [] op = "add_reminder" -> <<notes, noteSeq, add_reminder(reminders, arg[1], arg[2])>>
      [] op = "mark_notified" -> <<notes, noteSeq, mark_notified(reminders, arg[1])>>

\* the caller enters the operation and asks for self._lock
StoreEnter(c, op, arg) ==
    /\ conn[c].phase = "out"
    /\ op = "save_memory" => noteSeq < MaxNotes
    /\ op = "add_reminder" => Len(reminders) < MaxReminders
    /\ conn' = [conn EXCEPT ![c] = [phase |-> "wait", op |-> op, arg |-> arg,
                                     result |-> <<>>]]
    /\ UNCHANGED <<notes, noteSeq, reminders, storeLock, clockVars, schedVars,
                   speakerLock, mainVars, last>>

StoreAcquire_unlocked(c) ==
    /\ conn[c].phase = "wait"
    /\ storeLock' = c
    /\ conn' = [conn EXCEPT ![c].phase = "connected"]
    /\ UNCHANGED <<notes, noteSeq, reminders, clockVars, schedVars, speakerLock,
                   mainVars, last>>

\* with self._lock, self._connect() as conn
StoreAcquire(c) ==
    /\ conn[c].phase = "wait"
    /\ storeLock = "free"
    /\ storeLock' = c
    /\ conn' = [conn EXCEPT ![c].phase = "connected"]
    /\ UNCHANGED <<notes, noteSeq, reminders, clockVars, schedVars, speakerLock,
                   mainVars, last>>

\* conn.execute(...): a SELECT reads the committed tables (fetchall); an
\* INSERT, UPDATE or DELETE stays inside the connection's transaction
StoreExecute(c) ==
    /\ conn[c].phase = "connected"
    /\ conn' = [conn EXCEPT ![c].phase = "executed",
                            ![c].result = Query(conn[c].op, conn[c].arg)]
    /\ UNCHANGED <<notes, noteSeq, reminders, storeLock, clockVars, schedVars,
                   speakerLock, mainVars, last>>

\* conn.commit(): the statement takes effect as a whole
StoreCommit(c) ==
    /\ conn[c].phase = "executed"
    /\ IsWrite(conn[c].op)
    /\ notes' = Committed(conn[c].op, conn[c].arg)[1]
    /\ noteSeq' = Committed(conn[c].op, conn[c].arg)[2]
    /\ reminders' = Committed(conn[c].op, conn[c].arg)[3]
    /\ conn' = [conn EXCEPT ![c].phase = "committed"]
    /\ UNCHANGED <<storeLock, clockVars, schedVars, speakerLock, mainVars, last>>

StoreRelease_held(c) ==
    /\ \/ conn[c].phase = "committed"
       \/ conn[c].phase = "executed" /\ ~IsWrite(conn[c].op)
    /\ conn' = [conn EXCEPT ![c] = NoCall]
    /\ UNCHANGED <<notes, noteSeq, reminders, storeLock, clockVars, schedVars, speakerLock,
                   mainVars, last>>

\* the with block is left: the lock is released and the operation returns
StoreRelease(c) ==
    /\ \/ conn[c].phase = "committed"
       \/ conn[c].phase = "executed" /\ ~IsWrite(conn[c].op)
    /\ storeLock' = "free"
    /\ conn' = [conn EXCEPT ![c] = NoCall]
    /\ UNCHANGED <<notes, noteSeq, reminders, clockVars, schedVars, speakerLock,
                   mainVars, last>>

InitLocked ==
    /\ notes \in {<<>>, PersistedNotes}
    /\ noteSeq = Len(notes)
    /\ reminders \in {<<>>, Persisted}
    /\ InitLock
    /\ now = StartNow
    /\ horizon = StartNow
    /\ InitThreads({})
    /\ InitMain

NextLocked ==
    \E c \in Callers :
        \/ \E op \in OpsOf(c) : \E arg \in ArgsOf(op) : StoreEnter(c, op, arg)
        \/ StoreAcquire(c)
        \/ StoreExecute(c)
        \/ StoreCommit(c)
        \/ StoreRelease(c)

SpecLocked == InitLocked /\ [][NextLocked]_vars

----------------------------------------------------------------------------
\* The two threads of main.py with both locks followed step by step: the
\* session loop (listen, brain.process with its one MemoryStore call,
\* speaker.say) and ReminderThread.run (get_due_reminders, the callback
\* speaker.say, mark_notified, the wait).

\* storage.py line 136: run() calls get_due_reminders
SchedFetchCall(s) ==
    /\ pc[s] = "fetch"
    /\ StoreEnter(s, "get_due_reminders", <<now>>)

\* storage.py line 109: return [dict(r) for r in rows], inside the with block
SchedFetchRows(s) ==
    /\ pc[s] = "fetch"
    /\ conn[s].phase = "executed"
    /\ due' = [due EXCEPT ![s] = conn[s].result]
    /\ idx' = [idx EXCEPT ![s] = 1]
    /\ k' = [k EXCEPT ![s] = 0]
    /\ pc' = [pc EXCEPT ![s] = "fetched"]
    /\ UNCHANGED <<storeVars, clockVars, deadline, stop_event, calls, stopAt,
                   speakerLock, mainVars, last>>

\* storage.py lines 137-140: get_due_reminders has returned
SchedFetchReturn(s) ==
    /\ pc[s] = "fetched"
    /\ conn[s].phase = "out"
    /\ pc' = [pc EXCEPT ![s] = IF due[s] = <<>> THEN "sleep" ELSE "callback"]
    /\ UNCHANGED <<storeVars, clockVars, due, idx, k, deadline, stop_event, calls, stopAt,
                   speakerLock, mainVars, last>>

\* storage.py line 141: run() calls mark_notified
SchedMarkCall(s) ==
    /\ pc[s] = "mark"
    /\ StoreEnter(s, "mark_notified", <<due[s][idx[s]].id>>)

\* storage.py line 117: conn.commit() is done, the with block is about to end
SchedMarkDone(s) ==
    /\ pc[s] = "mark"
    /\ conn[s].phase = "committed"
    /\ pc' = [pc EXCEPT ![s] = "marked"]
    /\ UNCHANGED <<storeVars, clockVars, due, idx, k, deadline, stop_event, calls, stopAt,
                   speakerLock, mainVars, last>>

\* storage.py lines 139, 143: mark_notified has returned; the next r or the wait
SchedMarkReturn(s) ==
    /\ pc[s] = "marked"
    /\ conn[s].phase = "out"
    /\ idx' = [idx EXCEPT ![s] = @ + 1]
    /\ pc' = [pc EXCEPT ![s] = IF idx[s] + 1 > Len(due[s]) THEN "sleep" ELSE "callback"]
    /\ UNCHANGED <<storeVars, clockVars, due, k, deadline, stop_event, calls, stopAt,
                   speakerLock, mainVars, last>>

\* storage.py lines 143-146: the thirty waits of one second, or fewer when
\* the stop event is set; no lock is asked for in them
SchedPause(s) ==
    /\ pc[s] = "sleep"
    /\ pc' = [pc EXCEPT ![s] = "while"]
    /\ UNCHANGED <<storeVars, clockVars, due, idx, k, deadline, stop_event, calls, stopAt,
                   speakerLock, mainVars, last>>

\* the MemoryStore operation of the scheduler thread, inside the with block
SchedInStore(s) ==
    \/ StoreAcquire(s)
    \/ StoreExecute(s)
    \/ StoreCommit(s)
    \/ SchedFetchRows(s)
    \/ SchedMarkDone(s)
    \/ pc[s] \in {"fetched", "marked"} /\ StoreRelease(s)

SchedLocks(s) ==
    \/ SchedWhile(s)
    \/ SchedFetchCall(s)
    \/ SchedInStore(s)
    \/ SchedFetchReturn(s)
    \/ SchedCallback(s)
    \/ SchedSayAcquire(s)
    \/ SchedSayReturn(s)
    \/ SchedSayRaise(s)
    \/ SchedMarkCall(s)
    \/ SchedMarkReturn(s)
    \/ SchedPause(s)

\* the MemoryStore calls of brain.process followed here, one that writes and
\* one that reads (every operation takes the lock by the same with statement),
\* and what is passed to them
SessionOps == {"add_reminder", "get_all_memories"}

SaidOf(op) ==
    CASE op = "add_reminder" -> <<<<"call", "mom">>, now>>
      [] OTHER               -> <<>>

\* main.py line 101: brain.process reaches its MemoryStore call
\* (processor.py lines 269, 276, 292, 297, 171)
MainProcessCall(op, arg) ==
    /\ mpc = "listen"
    /\ StoreEnter("main", op, arg)

\* the MemoryStore call of brain.process is at the end of its with block
MainProcessDone ==
    /\ mpc = "listen"
    /\ \/ conn["main"].phase = "committed"
       \/ conn["main"].phase = "executed" /\ ~IsWrite(conn["main"].op)
    /\ mpc' = "processed"
    /\ response' = [intent |-> conn["main"].op, resp |-> "done", terminate |-> FALSE]
    /\ UNCHANGED <<storeVars, clockVars, schedVars, speakerLock, last>>

\* main.py lines 101-105: brain.process has returned
MainProcessReturn ==
    /\ mpc = "processed"
    /\ conn["main"].phase = "out"
    /\ mpc' = "say"
    /\ UNCHANGED <<storeVars, clockVars, schedVars, speakerLock, response, last>>

\* the MemoryStore operation of the session loop, inside the with block
MainInStore ==
    \/ StoreAcquire("main")
    \/ StoreExecute("main")
    \/ StoreCommit("main")
    \/ MainProcessDone
    \/ mpc = "processed" /\ StoreRelease("main")

\* texts brain.process answers without a MemoryStore call
StoreFree == { <<"hello">>, <<"bye">> }

MainLocks ==
    \/ \E text \in StoreFree : conn["main"].phase = "out" /\ MainListen(text)
    \/ \E op \in SessionOps : MainProcessCall(op, SaidOf(op))
    \/ MainInStore
    \/ MainProcessReturn
    \/ MainSayAcquire
    \/ MainSayReturn
    \/ MainSayRaise
    \/ MainExceptReturn
    \/ MainCleanup

InitLocks ==
    /\ notes = <<>>
    /\ noteSeq = 0
    /\ reminders \in {<<>>, Persisted}
    /\ InitLock
    /\ now = StartNow
    /\ horizon = StartNow
    /\ InitThreads({"t1"})
    /\ InitMain

NextLocks ==
    \/ SchedLocks("t1")
    \/ MainLocks

SpecLocks == InitLocks /\ [][NextLocks]_vars

\* the scheduling the two locks are used under: a thread inside a with
\* block runs on, a thread blocked on a lock gets it if the lock keeps
\* coming free (the other thread blocks in listen(), in playback or in
\* wait(timeout=1) between two acquisitions), and a playback ends
SpecLocksFair ==
    /\ SpecLocks
    /\ WF_vars(SchedInStore("t1"))
    /\ WF_vars(MainInStore)
    /\ SF_vars(StoreAcquire("t1"))
    /\ SF_vars(StoreAcquire("main"))
    /\ SF_vars(SchedSayAcquire("t1"))
    /\ SF_vars(MainSayAcquire)
    /\ WF_vars(SchedSayReturn("t1") \/ SchedSayRaise("t1"))
    /\ WF_vars(MainSayReturn \/ MainSayRaise \/ MainExceptReturn)

----------------------------------------------------------------------------
\* Brain.process called directly on one text at one instant

Openers ==
    { <<>>, <<" ">>, <<"good", "morning">>, <<"open">>, <<"close">>,
      <<"remind", "me">>, <<"remind", "me", "to">>, <<"Remind", "me", "to">>,
      <<"remember", "that">>, <<"calculate">>, <<"shutdown">>,
      <<"list", "reminders">>, <<"forget", "everything">> }

Objects ==
    { <<>>, <<"call", "mom">>, <<"chrome">>, <<"google", "chrome">>,
      <<"visual", "studio", "code">>,
      <<"downloads">>, <<"2", "+", "2">>, <<"2", "/", "0">>,
      <<"say", "that", "7">> }

Times ==
    { <<>>, <<"at", "8">>, <<"at", "8", "pm">>, <<"at", "12", "am">>,
      <<"at", "12", "PM">>, <<"at", "25">>, <<"at", "8:75">>, <<"at", "14:30">>,
      <<"at", "8pm">>, <<"at", "noon">> }

Closers == { <<>>, <<" ">>, <<"bye">>, <<"see", "you">>, <<"please">> }

\* whole utterances, one or more for each rule of Brain.process
Phrases ==
    { <<"hello">>, <<"how", "are", "you">>, <<"what", "time", "is", "it">>,
      <<"what's", "the", "date">>, <<"which", "day", "is", "it">>,
      <<"tell", "me", "a", "joke">>, <<"lock", "the", "screen">>,
      <<"power", "off">>, <<"restart">>, <<"put", "to", "sleep", "the", "computer">>,
      <<"screenshot">>, <<"volume", "up">>, <<"lower", "volume">>, <<"mute">>,
      <<"show", "music", "folder">>, <<"go", "to", "videos">>,
      <<"open", "the", "pod", "bay", "doors">>, <<"show", "my", "folder">>,
      <<"open", "chrome", "downloads">>, <<"launch", "spotify">>,
      <<"stop", "the", "music">>, <<"kill", "firefox">>, <<"kill", "paint">>,
      <<"remind", "me", "to", "remember", "x", "at", "8">>,
      <<"remind", "me", "to", "remember", "x">>,
      <<"remind", "me", "to", "x", "at", "13", "pm">>,
      <<"shut", "down", "the", "computer">>, <<"reboot">>,
      <<"remind", "me", "to", "x", "at", "7", "am">>,
      <<"remind", "me", "to", "x", "at", "0">>,
      <<"remind", "me", "to", "open", "the", "door", "at", "25">>,
      <<"remind", "me", "to", "close", "the", "door", "at", "8">>,
      <<"remember", "to", "list", "reminders">>,
      <<"remind", "me", "to", "list", "reminders">>,
      <<"remember", "to", "forget", "everything">>,
      <<"recall", "and", "clear", "memory">>,
      <<"my", "reminders", "and", "my", "notes">>,
      <<"show", "reminders">>, <<"what", "do", "you", "remember">>,
      <<"remember", "my", "notes">>, <<"recall">>, <<"delete", "memories">>,
      <<"what", "is", "2", "+", "2">>, <<"how", "much", "is", "12", "/", "0">>,
      <<"what", "is", "2", "/", "0">>,
      <<"2", "+">>, <<"(", "2", "+", "2">>, <<"2", "^", "7">>, <<"-", "7">>,
      <<"what", "is", "the", "weather">>, <<"who", "is", "x">>,
      <<"look", "up", "x">>, <<"latest", "news">>, <<"x">> }

Texts ==
    { a \o b \o c \o d : a \in Openers, b \in Objects, c \in Times, d \in Closers }
        \cup Phrases

\* 07:59:58, 08:00:00, 20:00:00 and 23:59:59 of day 0, 08:00:00 of day 1
Instants == { StartNow, 8 * 3600, 20 * 3600, Day - 1, Day + 8 * 3600 }

InitRouter ==
    /\ notes = PersistedNotes
    /\ noteSeq = 1
    /\ reminders = Persisted
    /\ InitLock
    /\ now \in Instants
    /\ horizon = now
    /\ InitThreads({})
    /\ speakerLock = "free"
    /\ mpc = "off"
    /\ response = NoResponse
    /\ \E text \in Texts :
          last = [op |-> "input", arg |-> text, before |-> <<>>, result |-> <<>>,
                  repeat |-> FALSE]

CallProcess ==
    /\ last.op = "input"
    /\ \E o \in {process(last.arg, now, notes, noteSeq, reminders)} :
           /\ notes' = o.notes
           /\ noteSeq' = o.noteSeq
           /\ reminders' = o.reminders
           /\ response' = [intent |-> o.intent, resp |-> o.resp,
                           terminate |-> o.terminate]
           /\ last' = [op |-> IF o.raised THEN "raised" ELSE "returned",
                       arg |-> last.arg, before |-> StoreNow,
                       result |-> <<o.resp, o.arg, o.act>>, repeat |-> FALSE]
    /\ UNCHANGED <<lockVars, clockVars, schedVars, speakerLock, mpc>>

NextRouter == CallProcess

SpecRouter == InitRouter /\ [][NextRouter]_vars

----------------------------------------------------------------------------
\* Properties of the reminder scheduler, the store, the router and the
\* session loop

\* the instruction text Brain.process works on
Asked == lower(strip(last.arg))

Processed == last.op \in {"returned", "raised"}

\* C1: with the single scheduler thread of main.py, no reminder is handed to
\* the notification callback more than once, over any number of poll cycles.
C1_DeliveredAtMostOnce ==
    \A id \in Ids : calls["t1"][id] + calls["t2"][id] <= 1

\* a stored reminder delivered in the first poll cycle and one created by the
\* session delivered by a later cycle, which did not deliver the first again
C1_Witness ==
    /\ Len(reminders) >= 2
    /\ now >= StartNow + PollTicks
    /\ \A j \in 1..Len(reminders) :
          reminders[j].notified /\ calls["t1"][reminders[j].id] = 1

\* C2: when two pollers run on the one store, a due reminder is never
\* delivered by both of them.
C2_NotDeliveredByBoth ==
    \A id \in Ids : ~(calls["t1"][id] >= 1 /\ calls["t2"][id] >= 1)

\* C3: an instruction that matches a farewell pattern yields a response with
\* terminate = true, whatever else it matches.
C3_FarewellTerminates ==
    (Processed /\ Search(FAREWELL_PATTERNS, Asked))
        => (last.op = "returned" /\ response.intent = "farewell" /\ response.terminate)

\* a farewell inside a reminder request whose hour the handler would reject
C3_Witness ==
    /\ last.op = "returned"
    /\ response.terminate
    /\ Match_remind(Asked)
    /\ PhraseAt(Asked, <<"at", "25">>, Len(Asked) - 2)

C5_RemindStrictlyFuture ==
    (last.op = "returned" /\ Len(reminders) > Len(last.before[3]))
        => LET r == reminders[Len(reminders)]
           IN  /\ r.remind_at > now
               /\ r.remind_at \div Day =
                     now \div Day + (IF r.remind_at % Day <= now % Day THEN 1 ELSE 0)

\* a request made at 08:00:00 for 8 o'clock: set for 08:00:00 of the next day
C5_Witness ==
    /\ last.op = "returned"
    /\ Len(reminders) > Len(last.before[3])
    /\ now % Day = 8 * 3600
    /\ reminders[Len(reminders)].remind_at = now + Day

\* C6: get_due_reminders returns exactly the stored reminders with
\* notified = false and remind_at <= now, each once.
C6_DueExactly ==
    last.op = "get_due_reminders"
        => /\ \A i \in 1..Len(last.result) :
                 \E j \in 1..Len(reminders) :
                     /\ last.result[i] = Row(reminders[j])
                     /\ ~reminders[j].notified
                     /\ reminders[j].remind_at <= last.arg[1]
           /\ \A j \in 1..Len(reminders) :
                 (~reminders[j].notified /\ reminders[j].remind_at <= last.arg[1])
                     => \E i \in 1..Len(last.result) : last.result[i].id = reminders[j].id
           /\ \A i, j \in 1..Len(last.result) :
                 last.result[i].id = last.result[j].id => i = j

\* a call that returned one reminder and left another out
C6_Witness ==
    /\ last.op = "get_due_reminders"
    /\ Len(last.result) >= 1
    /\ Len(last.result) < Len(reminders)

\* C7: mark_notified called again with the same id, or called with an id no
\* reminder has, leaves the store as it was.
C7_MarkIdempotent ==
    (/\ last.op = "mark_notified"
     /\ \/ last.repeat
        \/ \A j \in 1..Len(last.before[3]) : last.before[3][j].id # last.arg[1])
        => StoreNow = last.before

\* the second of two calls with the id of a stored reminder
C7_Witness ==
    /\ last.op = "mark_notified"
    /\ last.repeat
    /\ \E j \in 1..Len(reminders) :
          reminders[j].id = last.arg[1] /\ reminders[j].notified

\* C8: the remind intent adds a reminder only when it extracted both a task
\* and a time; without a task, and with a task but no time, it answers with
\* a clarifying question of its own kind, terminate = false, store unchanged.
C8_RemindNeedsTaskAndTime ==
    (Processed /\ response.intent = "remind")
        => /\ TaskStart(Asked) = 0
                 => /\ last.op = "returned"
                    /\ response.resp = "What should I remind you about, and at what time?"
                    /\ ~response.terminate
                    /\ StoreNow = last.before
           /\ (TaskStart(Asked) # 0 /\ time_pattern(Asked) = 0)
                 => /\ last.op = "returned"
                    /\ response.resp = "When should I remind you to"
                    /\ last.result[2] = task_match(Asked)
                    /\ ~response.terminate
                    /\ StoreNow = last.before
           /\ reminders # last.before[3]
                 => /\ TaskStart(Asked) # 0
                    /\ time_pattern(Asked) # 0
                    /\ response.resp = "Got it! I'll remind you to"

\* a request with a task and no time, answered with the question for the time
C8_Witness ==
    /\ last.op = "returned"
    /\ response.intent = "remind"
    /\ TaskStart(Asked) # 0
    /\ time_pattern(Asked) = 0
    /\ response.resp = "When should I remind you to"
    /\ StoreNow = last.before

\* C9: Brain.process returns for every input and never raises, an
\* out-of-range time such as "at 25" or "at 8:75" included.
C9_ProcessNeverRaises ==
    last.op # "raised"

\* C10: no fault raised while one input is handled leaves the session loop:
\* the loop goes on, or ends by farewell or interrupt.
C10_NoFaultLeavesLoop ==
    mpc # "crashed"

\* C11: after the router has returned terminate = true the session loop
\* delivers that response and leaves; it acquires and routes no further
\* input; the loop is never left, by farewell or by interrupt, without
\* stop() having been called on the reminder scheduler.
C11_TerminateEndsSession ==
    /\ response.terminate => mpc \notin {"listen", "except", "except_play", "crashed"}
    /\ mpc = "exited" => stop_event["t1"]
    /\ mpc # "interrupt_crashed"

\* who is inside engine.say / runAndWait
Playing ==
    {s \in Pollers : pc[s] = "say_play"}
        \cup (IF mpc \in {"playing", "except_play", "interrupt_play"} THEN {"main"} ELSE {})

\* C12: at most one utterance is being played at any time: the playback
\* sections of the session loop and of the scheduler's callback never overlap.
C12_OneUtterance ==
    Cardinality(Playing) <= 1

\* the session loop is playing a response while the callback waits for the lock
C12_Witness ==
    /\ mpc = "playing"
    /\ pc["t1"] = "say_lock"
    /\ speakerLock = "main"

\* reminder id is stored, not notified, and its remind_at has been reached
IsDue(id) ==
    \E j \in 1..Len(reminders) :
        reminders[j].id = id /\ ~reminders[j].notified /\ reminders[j].remind_at <= now

IsNotified(id) ==
    \E j \in 1..Len(reminders) : reminders[j].id = id /\ reminders[j].notified

\* C13: under fair scheduling a reminder whose remind_at is reached while
\* the scheduler runs and is not stopped is eventually handed to the callback
\* and marked notified, unless the scheduler is stopped first or a callback
\* fails to return; reminders added during a poll cycle included.
C13_DueEventuallyDelivered ==
    \A id \in Ids :
        (IsDue(id) /\ pc["t1"] \notin {"off", "done", "crashed"} /\ ~stop_event["t1"])
            ~> \/ IsNotified(id) /\ calls["t1"][id] >= 1
               \/ stop_event["t1"]
               \/ pc["t1"] = "crashed"

\* a reminder the session loop added after the first poll, delivered and
\* marked by a later poll while the scheduler was never stopped
C13_Witness ==
    /\ Len(reminders) >= 2
    /\ IsNotified(reminders[2].id)
    /\ calls["t1"][reminders[2].id] = 1
    /\ ~stop_event["t1"]
    /\ pc["t1"] \in {"sleep", "wait"}

\* C14: a reminder's notified flag never goes back from true to false; it is
\* set only by the scheduler's mark step and only for a reminder whose
\* remind_at has been reached, so notified = true implies remind_at <= now.
C14_NotifiedMonotonic ==
    /\ [](\A j \in 1..Len(reminders) :
             reminders[j].notified => reminders[j].remind_at <= now)
    /\ [][\A j \in 1..Len(reminders), i \in 1..Len(reminders') :
             reminders'[i].id = reminders[j].id
                 => /\ reminders[j].notified => reminders'[i].notified
                    /\ (~reminders[j].notified /\ reminders'[i].notified)
                          => /\ \E s \in Pollers : pc[s] = "mark" /\ pc'[s] # "mark"
                             /\ reminders[j].remind_at <= now]_vars

\* one reminder delivered and marked while another, set for tomorrow, is pending
C14_Witness ==
    \E i, j \in 1..Len(reminders) :
        /\ reminders[i].notified
        /\ calls["t1"][reminders[i].id] = 1
        /\ ~reminders[j].notified
        /\ reminders[j].remind_at > now

\* C15: no step of the session loop, the router or the scheduler removes a
\* reminder: every stored reminder is still stored after the step, with its
\* id, task and remind_at, and still notified if it was.
C15_RemindersNeverRemoved ==
    [][/\ Len(reminders') >= Len(reminders)
       /\ \A j \in 1..Len(reminders) :
             \E i \in 1..Len(reminders') :
                 /\ reminders'[i].id = reminders[j].id
                 /\ reminders'[i].task = reminders[j].task
                 /\ reminders'[i].remind_at = reminders[j].remind_at
                 /\ reminders[j].notified => reminders'[i].notified]_vars

\* the session has ended and the scheduler has stopped: the delivered
\* reminder and the one created in the session are both still stored
C15_Witness ==
    /\ mpc = "exited"
    /\ pc["t1"] = "done"
    /\ Len(reminders) >= 2
    /\ \E j \in 1..Len(reminders) :
          reminders[j].notified /\ calls["t1"][reminders[j].id] = 1

\* C16: after save_memory(c), get_all_memories returns the new note first
\* and then the notes that were stored before, newest first by id.
C16_NewestFirst ==
    /\ last.op = "save_memory"
          => LET listed == get_all_memories(notes)
             IN  /\ listed # <<>>
                 /\ listed[1].content = strip(last.arg[1])
                 /\ Tail(listed) = get_all_memories(last.before[1])
    /\ last.op = "get_all_memories"
          => /\ Len(last.result) = Len(notes)
             /\ \A i \in 1..Len(last.result) :
                   \E n \in 1..Len(notes) :
                       /\ last.result[i].content = notes[n].content
                       /\ last.result[i].saved_at = notes[n].saved_at
                       /\ Cardinality({m \in 1..Len(notes) : notes[m].id > notes[n].id})
                             = i - 1

\* a note saved on top of two older notes, the newer of them with another content
C16_Witness ==
    /\ last.op = "save_memory"
    /\ Len(notes) >= 3
    /\ notes[Len(notes)].content # notes[Len(notes) - 1].content

\* C17: the clear-memory intent, through clear_memories, removes every note
\* and leaves every reminder as it was (id, task, remind_at, notified);
\* get_all_memories is empty afterwards.
C17_ClearKeepsReminders ==
    (Processed /\ response.intent = "clear_memory")
        => /\ last.op = "returned"
           /\ notes = <<>>
           /\ get_all_memories(notes) = <<>>
           /\ reminders = last.before[3]
           /\ ~response.terminate

\* the intent ran on a store that held a note and a reminder
C17_Witness ==
    /\ last.op = "returned"
    /\ response.intent = "clear_memory"
    /\ last.before[1] # <<>>
    /\ reminders # <<>>

\* the configured name the handler acted on, and the table it came from
Resolved == last.result[3][2]

TableOf(intent) ==
    CASE intent = "open_app" -> APP_COMMANDS
      [] intent = "close_app" -> PROCESS_NAMES
      [] intent = "open_folder" -> FOLDER_COMMANDS

\* C18: the open-app, close-app and open-folder handlers act on a configured
\* name that occurs in the input and that no other configured name occurring
\* in the input exceeds in length.
C18_LongestNameWins ==
    (Processed /\ response.intent \in {"open_app", "close_app", "open_folder"})
        => LET table == TableOf(response.intent)
           IN  /\ \E i \in 1..Len(table) : table[i] = Resolved
               /\ Search({Resolved}, Asked)
               /\ \A i \in 1..Len(table) :
                     Search({table[i]}, Asked) => CharLen(table[i]) <= CharLen(Resolved)

\* "open google chrome": both chrome and google chrome occur, the longer wins
C18_Witness ==
    /\ last.op = "returned"
    /\ response.intent = "open_app"
    /\ Resolved = <<"google", "chrome">>
    /\ Search({<<"chrome">>}, Asked)

\* the text the calculator looks at: the input without the recognized prefixes
Cleaned == strip(Sub(calc_prefix_alts, Asked))

ReachedCalculator ==
    Processed /\ response.intent \in {"calc", "weather", "what_is", "search", "news", "catch_all"}

\* C19: of the inputs that reach the calculator step, the calculator answers
\* only those whose text, the recognized prefixes stripped, is made of digits,
\* whitespace and + - * / ^ ( ) . alone; a text with any other character is
\* not evaluated and goes on to the later intents, the knowledge lookup last.
C19_CalculatorOnlyMath ==
    ReachedCalculator
        => /\ last.op = "returned"
           /\ response.intent = "calc"
                 => /\ Cleaned # <<>>
                    /\ \A i \in 1..Len(Cleaned) : Cleaned[i] \in MathToks
                    /\ response.resp = "The answer is"
           /\ (\E i \in 1..Len(Cleaned) : Cleaned[i] \notin MathToks)
                 => /\ response.intent # "calc"
                    /\ response.resp # "The answer is"
                    /\ response.intent = "catch_all"
                          => last.result[3] = <<"find_answer", Asked, TRUE>>

\* "calculate say that 7": not evaluated, answered by the knowledge lookup
C19_Witness ==
    /\ last.op = "returned"
    /\ Asked = <<"calculate", "say", "that", "7">>
    /\ response.intent = "catch_all"
    /\ last.result[3][1] = "find_answer"

\* C20: within one poll cycle the due reminders are delivered in ascending
\* remind_at order: the reminder whose callback has been invoked is set for
\* no later an instant than any reminder of the batch still to be delivered.
C20_DeliveredInTimeOrder ==
    \A s \in Pollers :
        pc[s] \in {"say_lock", "say_play", "mark"}
            => \A j \in (idx[s] + 1)..Len(due[s]) :
                   due[s][idx[s]].remind_at <= due[s][j].remind_at

\* C21: a failure of mark_notified does not end the scheduler: the thread
\* goes on to its wait and a later poll cycle fetches the reminder again.
C21_MarkFailureSurvived ==
    \A s \in Pollers : pc[s] # "mark_crashed"

\* the dispatch sequence of Brain.process, first rule first
Rules ==
    << "farewell", "greeting", "how_are_you", "time", "date", "day", "joke",
       "lock", "shutdown", "restart", "sleep_pc", "screenshot", "volume_up",
       "volume_down", "mute", "open_folder", "open_app", "close_app", "remind",
       "list_reminders", "remember", "recall", "clear_memory", "calc", "weather",
       "what_is", "search", "news", "catch_all" >>

HasName(table, t) == \E i \in 1..Len(table) : Search({table[i]}, t)

\* the pattern of the rule matches t and its handler does not report no-match
Produces(rule, t) ==
    CASE rule = "farewell"       -> Search(FAREWELL_PATTERNS, t)
      [] rule = "greeting"       -> Search(GREETING_PATTERNS, t)
      [] rule = "how_are_you"    -> Search(HOW_ARE_YOU_PATTERNS, t)
      [] rule = "time"           -> Search(RE_time, t)
      [] rule = "date"           -> Search(RE_date, t)
      [] rule = "day"            -> Search(RE_day, t)
      [] rule = "joke"           -> Search(RE_joke, t)
      [] rule = "lock"           -> Search(RE_lock, t)
      [] rule = "shutdown"       -> Search(RE_shutdown, t)
      [] rule = "restart"        -> Search(RE_restart, t)
      [] rule = "sleep_pc"       -> Search(RE_sleep_pc, t)
      [] rule = "screenshot"     -> Search(RE_screenshot, t)
      [] rule = "volume_up"      -> Search(RE_volume_up, t)
      [] rule = "volume_down"    -> Search(RE_volume_down, t)
      [] rule = "mute"           -> Search(RE_mute, t)
      [] rule = "open_folder"    -> Match_open_folder(t) /\ HasName(FOLDER_COMMANDS, t)
      [] rule = "open_app"       -> Search(RE_open_app, t) /\ HasName(APP_COMMANDS, t)
      [] rule = "close_app"      -> Search(RE_close_app, t) /\ HasName(PROCESS_NAMES, t)
      [] rule = "remind"         -> Match_remind(t)
      [] rule = "list_reminders" -> Search(RE_list_reminders, t)
      [] rule = "remember"       -> Match_remember(t)
      [] rule = "recall"         -> Search(RE_recall, t)
      [] rule = "clear_memory"   -> Search(RE_clear_memory, t)
      [] rule = "calc"           -> try_calculate(t) # <<>>
      [] rule = "weather"        -> Search(RE_weather, t)
      [] rule = "what_is"        -> Search(RE_what_is, t)
      [] rule = "search"         -> Search(RE_search, t)
      [] rule = "news"           -> Search(RE_news, t)
      [] rule = "catch_all"      -> TRUE

\* the collaborator call a rule makes: <<>> for none, else its name and,
\* where the rule fixes it, its argument
CallOf(rule) ==
    CASE rule = "lock"        -> <<"lock_screen", <<>>>>
      [] rule = "shutdown"    -> <<"shutdown_pc", <<>>>>
      [] rule = "restart"     -> <<"restart_pc", <<>>>>
      [] rule = "sleep_pc"    -> <<"sleep_pc", <<>>>>
      [] rule = "screenshot"  -> <<"take_screenshot", <<>>>>
      [] rule = "volume_up"   -> <<"volume_change", <<"up">>>>
      [] rule = "volume_down" -> <<"volume_change", <<"down">>>>
      [] rule = "mute"        -> <<"volume_change", <<"mute">>>>
      [] rule \in {"open_folder", "open_app", "close_app"} -> <<rule>>
      [] rule \in {"what_is", "search", "news", "catch_all"} -> <<"find_answer">>
      [] OTHER -> <<>>

\* the position in Rules of the first rule that produces a response for t
FirstRule(t) == Min({n \in 1..Len(Rules) : Produces(Rules[n], t)})

\* C22: Brain.process answers a non-empty input by the first rule of the
\* dispatch sequence whose pattern matches and whose handler does not report
\* no-match; the one collaborator call it makes, if any, is that rule's, and
\* the knowledge lookup of the catch-all is made only when no rule before it
\* produced a response.
C22_FirstMatchWins ==
    (Processed /\ Asked # <<>>)
        => LET rule == Rules[FirstRule(Asked)]
               act  == last.result[3]
           IN  /\ response.intent =
                     (IF rule \in {"lock", "shutdown", "restart", "screenshot"}
                      THEN CallOf(rule)[1]
                      ELSE IF rule \in {"volume_up", "volume_down", "mute"}
                      THEN "volume_change" ELSE rule)
               /\ IF CallOf(rule) = <<>> \/ last.op = "raised"
                  THEN act = <<>>
                  ELSE /\ act # <<>>
                       /\ SubSeq(act, 1, Len(CallOf(rule))) = CallOf(rule)
               /\ response.intent = "catch_all"
                     => \A n \in 1..(Len(Rules) - 1) : ~Produces(Rules[n], Asked)

\* "remember that google chrome": the remember rule and the search rule both
\* match, the note is saved and no lookup is made
C22_Witness ==
    /\ last.op = "returned"
    /\ response.intent = "remember"
    /\ Search(RE_search, Asked)
    /\ last.result[3] = <<>>
    /\ Len(notes) = Len(last.before[1]) + 1

\* the trigger pattern of a launcher rule
Trigger(rule, t) ==
    CASE rule = "open_folder" -> Match_open_folder(t)
      [] rule = "open_app"    -> Search(RE_open_app, t)
      [] rule = "close_app"   -> Search(RE_close_app, t)

RuleIndex(rule) == CHOOSE n \in 1..Len(Rules) : Rules[n] = rule

\* no rule before this one answers t: the dispatch gets as far as the rule
Reaches(rule, t) ==
    \A n \in 1..(RuleIndex(rule) - 1) : ~Produces(Rules[n], t)

\* C23: an input that gets as far as the open-folder, open-app or close-app
\* rule, matches its trigger and holds no configured name of its table gets
\* no launcher call and no response from that rule; a rule after it answers,
\* and Brain.process returns (it does not end in an error).
C23_NoNameFallsThrough ==
    (Processed /\ Asked # <<>>)
        => \A rule \in {"open_folder", "open_app", "close_app"} :
               (/\ Reaches(rule, Asked)
                /\ Trigger(rule, Asked)
                /\ ~HasName(TableOf(rule), Asked))
                   => /\ response.intent # rule
                      /\ last.result[3] = <<>> \/ last.result[3][1] # rule
                      /\ \E n \in (RuleIndex(rule) + 1)..Len(Rules) :
                             /\ Rules[n] = response.intent
                             /\ Produces(Rules[n], Asked)
                      /\ last.op = "returned"

\* the reminder and memory rules, in the order lines 158-175 try them
MemoryGroup == <<"remind", "list_reminders", "remember", "recall", "clear_memory">>

\* C24: of the inputs that get as far as the reminder rule, one that matches
\* both "remind me" and "remember ..." is handled by reminder creation and
\* saves no note; in general the rule that answers is the first of reminder
\* creation, reminder listing, remember, recall, clear-memory that matches,
\* a reminder is added by reminder creation alone and a note by remember alone.
C24_RemindBeforeRemember ==
    (Processed /\ Asked # <<>> /\ Reaches("remind", Asked))
        => /\ (Match_remind(Asked) /\ Match_remember(Asked))
                 => /\ response.intent = "remind"
                    /\ notes = last.before[1]
                    /\ noteSeq = last.before[2]
           /\ \A g \in 1..Len(MemoryGroup) :
                 (/\ Produces(MemoryGroup[g], Asked)
                  /\ \A h \in 1..(g - 1) : ~Produces(MemoryGroup[h], Asked))
                     => response.intent = MemoryGroup[g]
           /\ reminders # last.before[3] => response.intent = "remind"
           /\ Len(notes) > Len(last.before[1]) => response.intent = "remember"

\* "remind me to remember x at 8": a reminder for "remember x", no note
C24_Witness ==
    /\ last.op = "returned"
    /\ Match_remind(Asked)
    /\ Match_remember(Asked)
    /\ Len(reminders) = Len(last.before[3]) + 1
    /\ reminders[Len(reminders)].task = <<"remember", "x">>
    /\ notes = last.before[1]

\* C25: a step of the session loop that takes one input from listen() calls
\* the router if and only if the input is non-empty, is not a help phrase
\* and, when a wake word is configured, contains it.  An input that is not
\* routed leaves the store as it was; one ignored for want of the wake word
\* leaves the loop at listen() with nothing to say; a routed input reaches the
\* router free of the wake word.
C25_RouterGate ==
    [][last' # last
         => LET text == last'.arg
                w    == lower(last.wake)
                toRoute == /\ text # <<>>
                           /\ text \notin HelpPhrases
                           /\ w = <<>> \/ Search({w}, text)
                routed  == \/ mpc' = "except"
                           \/ mpc' = "say" /\ response'.intent # "help"
            IN  /\ toRoute <=> routed
                /\ ~toRoute => <<notes', noteSeq', reminders'>> = <<notes, noteSeq, reminders>>
                /\ (text # <<>> /\ text \notin HelpPhrases /\ ~toRoute)
                      => /\ mpc' = "listen"
                         /\ response' = response
                         /\ speakerLock' = speakerLock
                /\ (toRoute /\ w # <<>>)
                      => /\ ~Search({w}, last'.user_input)
                         /\ DropSpace(last'.user_input)
                               = SelectSeq(text, LAMBDA tok : <<tok>> # w)
                /\ (toRoute /\ w = <<>>) => last'.user_input = text]_vars

\* with the wake word configured, "nexis remember that nexis x" was routed
\* and the note saved is "x"
C25_Witness ==
    /\ last.op = "heard"
    /\ last.wake # <<>>
    /\ last.arg = <<"nexis", "remember", "that", "nexis", "x">>
    /\ mpc = "say"
    /\ response.intent = "remember"
    /\ notes # <<>>
    /\ notes[Len(notes)].content = <<"x">>

\* the calculator's text is within the character class and eval faults on it
EvalFaults ==
    /\ Cleaned # <<>>
    /\ \A i \in 1..Len(Cleaned) : Cleaned[i] \in MathToks
    /\ ~Eval(DropSpace(Cleaned)).ok

\* C26: when an input gets as far as the calculator, its text is within the
\* character class and the evaluation faults (division by zero, malformed
\* expression), Brain.process returns, with terminate = false, the response
\* of the first later rule that matches; the calculator gives no answer and
\* the store is as it was.
C26_EvalFaultFallsThrough ==
    (Processed /\ Asked # <<>> /\ Reaches("calc", Asked) /\ EvalFaults)
        => /\ last.op = "returned"
           /\ ~response.terminate
           /\ response.resp # "The answer is"
           /\ \E n \in (RuleIndex("calc") + 1)..Len(Rules) :
                  /\ Rules[n] = response.intent
                  /\ Produces(Rules[n], Asked)
                  /\ \A m \in (RuleIndex("calc") + 1)..(n - 1) : ~Produces(Rules[m], Asked)
           /\ StoreNow = last.before

\* "how much is 12 / 0": division by zero, answered by the catch-all lookup
C26_Witness ==
    /\ last.op = "returned"
    /\ EvalFaults
    /\ Eval(DropSpace(Cleaned)).val = <<"ZeroDivisionError">>
    /\ response.intent = "catch_all"
    /\ last.result[3] = <<"find_answer", Asked, TRUE>>

\* the callers that are inside a MemoryStore operation (within its with block)
Inside == {c \in Callers : conn[c].phase \in {"connected", "executed", "committed"}}

\* C27: at most one thread is inside a MemoryStore operation at a time, and
\* it holds the lock; the tables change only at the commit of the one
\* operation that is inside, by the whole effect of that operation; and the
\* rows a reader gets are whole rows of the committed tables.
C27_StoreOpsAtomic ==
    /\ [](Cardinality(Inside) <= 1 /\ \A c \in Inside : storeLock = c)
    /\ [][StoreNow' # StoreNow
            => \E c \in Inside :
                  /\ Inside = {c}
                  /\ conn[c].phase = "executed" /\ conn'[c].phase = "committed"
                  /\ StoreNow' = Committed(conn[c].op, conn[c].arg)]_vars
    /\ [][\A c \in Callers :
             (conn[c].phase = "connected" /\ conn'[c].phase = "executed")
                => /\ Inside = {c}
                   /\ conn[c].op \in {"get_pending_reminders", "get_due_reminders"}
                         => \A i \in 1..Len(conn'[c].result) :
                               \E j \in 1..Len(reminders) :
                                   conn'[c].result[i] = Row(reminders[j])
                   /\ conn[c].op = "get_all_memories"
                         => /\ Len(conn'[c].result) = Len(notes)
                            /\ \A i \in 1..Len(conn'[c].result) :
                                  \E j \in 1..Len(notes) :
                                      /\ conn'[c].result[i].content = notes[j].content
                                      /\ conn'[c].result[i].saved_at = notes[j].saved_at]_vars

\* the scheduler thread waits for the lock while the session loop is between
\* the INSERT and the commit of add_reminder
C27_Witness ==
    /\ conn["main"].phase = "executed"
    /\ conn["main"].op = "add_reminder"
    /\ conn["t1"].phase = "wait"
    /\ conn["t1"].op = "get_due_reminders"
    /\ storeLock = "main"

\* what the time pattern read from the request: hour, minute (-1 when the
\* minute group is absent) and meridiem ("" when absent)
ParsedHour == TimeTok(Asked[time_pattern(Asked)]).h
ParsedMinute == TimeTok(Asked[time_pattern(Asked)]).m
ParsedMeridiem == meridiem(Asked, time_pattern(Asked))

\* C28: the reminder stored for a request has, as its time of day, the
\* parsed hour in 24-hour form (pm below 12 adds 12, 12 pm is 12, 12 am is 0,
\* any other case keeps the hour), the parsed minute or 0 when there is none,
\* and second 0.
C28_TwentyFourHour ==
    (last.op = "returned" /\ Len(reminders) > Len(last.before[3]))
        => LET h   == ParsedHour
               mer == ParsedMeridiem
               h24 == CASE mer = "pm" /\ h < 12 -> h + 12
                        [] mer = "pm" /\ h = 12 -> 12
                        [] mer = "am" /\ h = 12 -> 0
                        [] OTHER -> h
               min == IF ParsedMinute = -1 THEN 0 ELSE ParsedMinute
           IN  reminders[Len(reminders)].remind_at % Day = h24 * 3600 + min * 60

\* "at 12 am": stored for 00:00:00
C28_Witness ==
    /\ last.op = "returned"
    /\ Len(reminders) > Len(last.before[3])
    /\ ParsedHour = 12
    /\ ParsedMeridiem = "am"
    /\ reminders[Len(reminders)].remind_at % Day = 0

\* C29: no thread holds MemoryStore._lock and Speaker._lock together, nor
\* waits for one of them while it holds the other; the scheduler is outside
\* every MemoryStore operation from the moment it invokes the callback until
\* the callback has returned; and, playbacks ending, a thread that asks for
\* either lock gets it.
C29_NoDeadlock ==
    /\ [](\A c \in Callers :
            /\ ~(storeLock = c /\ speakerLock = c)
            /\ speakerLock = c => conn[c].phase = "out"
            /\ storeLock = c =>
                  /\ c = "t1" => pc[c] \notin {"say_lock", "say_play"}
                  /\ c = "main" => mpc \notin {"say", "except", "playing", "except_play"})
    /\ [](pc["t1"] \in {"callback", "say_lock", "say_play"}
            => storeLock # "t1" /\ conn["t1"].phase = "out")
    /\ \A c \in Callers : (conn[c].phase = "wait") ~> (storeLock = c)
    /\ (pc["t1"] = "say_lock") ~> (speakerLock = "t1")
    /\ (mpc \in {"say", "except"}) ~> (speakerLock = "main")

\* the session loop is speaking while the scheduler, its callback returned,
\* is inside mark_notified with the store lock, and the session loop's next
\* MemoryStore call would have to wait
C29_Witness ==
    /\ speakerLock = "main"
    /\ storeLock = "t1"
    /\ conn["t1"].op = "mark_notified"
    /\ calls["t1"][1] = 1

\* C30: one call of Brain.process changes the store in three ways only: a
\* reminder creation that succeeds appends one reminder, not notified, and
\* leaves the notes; the remember intent appends one note and leaves the
\* reminders; clear-memory deletes the notes and leaves the reminders. Any
\* other outcome, a call that raises included, leaves notes and reminders
\* as they were, and no call changes the notified flag of a stored reminder.
C30_StoreChangedByThreeIntents ==
    last.op \in {"returned", "raised"}
        => LET ns0 == last.before[1]
               rs0 == last.before[3]
               created == /\ last.op = "returned"
                          /\ response.intent = "remind"
                          /\ response.resp = "Got it! I'll remind you to"
           IN  /\ IF created
                  THEN /\ Len(reminders) = Len(rs0) + 1
                       /\ SubSeq(reminders, 1, Len(rs0)) = rs0
                       /\ ~reminders[Len(reminders)].notified
                       /\ \A j \in 1..Len(rs0) : rs0[j].id # reminders[Len(reminders)].id
                  ELSE reminders = rs0
               /\ IF last.op = "returned" /\ response.intent = "remember"
                  THEN /\ Len(notes) = Len(ns0) + 1
                       /\ SubSeq(notes, 1, Len(ns0)) = ns0
                       /\ \A j \in 1..Len(ns0) : ns0[j].id # notes[Len(notes)].id
                  ELSE IF last.op = "returned" /\ response.intent = "clear_memory"
                  THEN notes = <<>>
                  ELSE notes = ns0
               /\ \A j \in 1..Len(rs0) : reminders[j].notified = rs0[j].notified

\* "remind me to remember x at 8": one reminder more, the note of the
\* earlier run untouched
C30_Witness ==
    /\ last.op = "returned"
    /\ response.intent = "remind"
    /\ Match_remember(Asked)
    /\ Len(reminders) = Len(last.before[3]) + 1
    /\ ~reminders[Len(reminders)].notified
    /\ notes = last.before[1]
    /\ notes # <<>>

\* C31: Brain.process returns terminate = true only when the text matches
\* a farewell pattern; the empty text, the system-control requests and
\* every other text return terminate = false.
C31_TerminateOnlyFarewell ==
    last.op \in {"returned", "raised"}
        => /\ response.terminate
                => last.op = "returned" /\ Search(FAREWELL_PATTERNS, lower(strip(Asked)))
           /\ response.intent # "farewell" => ~response.terminate
           /\ response.intent \in {"empty", "shutdown_pc", "restart_pc", "sleep_pc",
                                    "lock_screen"} => ~response.terminate

\* a shutdown request handled by system control: the collaborator was
\* called and the session goes on
C31_Witness ==
    /\ last.op = "returned"
    /\ response.intent = "shutdown_pc"
    /\ last.result[3] = <<"shutdown_pc", <<>>>>
    /\ Search(RE_shutdown, lower(strip(Asked)))
    /\ ~response.terminate

\* C32: once stop() has been called the scheduler thread leaves its loop,
\* unless a callback raises first. From then on the loop condition sends it
\* out, no new poll cycle and no new wait is begun (the one fetch that can
\* still happen is that of a thread which had passed the loop condition
\* before the stop), the batch being delivered is continued reminder by
\* reminder, and the thread that has left the loop has delivered and marked
\* every reminder of its last batch.
C32_StopTerminates ==
    /\ stop_event["t1"] ~> pc["t1"] \in {"done", "crashed"}
    /\ [][stop_event["t1"] =>
            /\ pc["t1"] = "while" => pc'["t1"] \in {"while", "done"}
            /\ pc'["t1"] = "fetch" => pc["t1"] = "fetch"
            /\ pc'["t1"] = "wait" => pc["t1"] = "wait"
            /\ pc["t1"] = "mark" /\ pc'["t1"] # "mark" =>
                  /\ idx'["t1"] = idx["t1"] + 1
                  /\ pc'["t1"] = IF idx'["t1"] <= Len(due["t1"]) THEN "callback"
                                                                 ELSE "sleep"
            /\ pc'["t1"] = "done" => pc["t1"] \in {"while", "done"}]_vars
    /\ [](pc["t1"] = "done" =>
            /\ stop_event["t1"]
            /\ due["t1"] # <<>> => idx["t1"] = Len(due["t1"]) + 1
            /\ \A j \in 1..Len(due["t1"]) :
                   /\ IsNotified(due["t1"][j].id)
                   /\ calls["t1"][due["t1"][j].id] >= 1)

\* the stop came while a batch of two was being delivered; the thread
\* finished the batch after it and then left the loop
C32_Witness ==
    /\ pc["t1"] = "done"
    /\ stopAt >= 0
    /\ now > stopAt
    /\ Len(due["t1"]) = 2
    /\ \A j \in 1..2 : IsNotified(due["t1"][j].id)

\* the reminder the scheduler thread is handling: r of `for r in due`
Current == due["t1"][idx["t1"]]

Listed(id) == \E j \in 1..Len(get_pending_reminders(reminders)) :
                  get_pending_reminders(reminders)[j].id = id

\* C33: when the callback raises for a reminder the scheduler thread ends
\* there: the reminder is not marked and stays pending, the thread fetches,
\* delivers and marks nothing afterwards, and the step that ends the thread
\* leaves the session loop where it was, with the speaker lock free.
C33_CallbackRaiseEndsThread ==
    /\ [](pc["t1"] = "crashed" =>
            /\ ~IsNotified(Current.id)
            /\ Listed(Current.id)
            /\ speakerLock # "t1")
    /\ [][pc["t1"] = "crashed" =>
            /\ pc'["t1"] = "crashed"
            /\ due' = due /\ idx' = idx /\ calls' = calls
            /\ \A j \in 1..Len(reminders) :
                   reminders'[j].notified = reminders[j].notified]_vars
    /\ [][pc'["t1"] = "crashed" /\ pc["t1"] # "crashed" =>
            /\ pc["t1"] = "say_play"
            /\ reminders' = reminders
            /\ <<mpc, response>>' = <<mpc, response>>
            /\ speakerLock' = "free"]_vars

\* the thread ended on the first reminder of a batch of two; neither is
\* marked, the second was never delivered, and the session loop is speaking
C33_Witness ==
    /\ pc["t1"] = "crashed"
    /\ Len(due["t1"]) = 2
    /\ idx["t1"] = 1
    /\ \A j \in 1..2 : ~IsNotified(due["t1"][j].id)
    /\ calls["t1"][due["t1"][2].id] = 0
    /\ mpc = "playing"

\* C34: a reminder is marked only after its callback has returned: a
\* notified reminder has had its callback invoked and is not the one whose
\* callback is running, and the reminder whose callback is running is not
\* notified and is listed by get_pending_reminders; the flag is set by the
\* step that follows the callback's return and by no other.
C34_MarkAfterCallback ==
    /\ [](\A id \in Ids : IsNotified(id) =>
            /\ calls["t1"][id] >= 1
            /\ ~(pc["t1"] \in {"say_lock", "say_play"} /\ Current.id = id))
    /\ [](pc["t1"] \in {"say_lock", "say_play"} =>
            /\ calls["t1"][Current.id] >= 1
            /\ ~IsNotified(Current.id)
            /\ Listed(Current.id))
    /\ [][\A j \in 1..Len(reminders) :
            (~reminders[j].notified /\ reminders'[j].notified) =>
                /\ pc["t1"] = "mark"
                /\ Current.id = reminders[j].id]_vars

\* the second reminder of a batch is being spoken: the first is marked, the
\* second is still pending
C34_Witness ==
    /\ pc["t1"] = "say_play"
    /\ idx["t1"] = 2
    /\ IsNotified(due["t1"][1].id)
    /\ ~IsNotified(Current.id)
    /\ Listed(Current.id)

====
